---- MODULE Spec2Model ----
(***************************************************************************)
(* Model of the render core of oasis-engine: RenderQueue (element list,    *)
(* sort, render with uniform-upload diffing) and Camera (lazy projection   *)
(* state).  Arrays are TLA+ sequences; the source's 0-based index i is     *)
(* position i + 1.                                                         *)
(***************************************************************************)
EXTENDS Integers, Sequences, FiniteSets, TLC

\* ------------------------------------------------------------------ bounds
\* Longest element list a queue holds in the sort specification.
MaxLen == 12
\* Most renderer components in the scene of the sort specification.
MaxRenderers == 4
\* Most sorts applied to a queue between two clears.
MaxSorts == 2
\* Most elements a queue holds in the render specification.
MaxItems == 2
\* Most Camera.render calls (frames) of a run.
MaxFrames == 2
\* Most render calls of a run, direct RenderQueue.render calls included.
MaxCalls == 2
\* Most camera operations of a run other than Camera.render.
MaxSteps == 4
\* Most calls on fonts and sub fonts of a run.
MaxFontSteps == 5
\* Most operations of a run on two text renderers that share the record pool.
MaxPoolSteps == 6

\* Values a renderer's priority and _distanceForSort take.
Priorities == {0, 1}
Distances == {0, 1}

\* The two canonical comparators handed to RenderQueue.sort.
Comparators == {"NearToFar", "FarToNear"}

VARIABLES
  renderers,   \* the scene's renderer components: priority, _distanceForSort, layer
  items,       \* RenderQueue.items
  lastSort,    \* comparator of the last sort since the last clear, or "none"
  sortCount,   \* sorts since the last clear
  before,      \* items as they were when the last sort was called
  sortLog,     \* the insertion-sort and partition steps of the last sort
  materials,   \* per material: destroyed
  programs,    \* per shader program: the five upload stamps
  currentBind, \* the program the hardware renderer has bound
  pending,     \* elements the sprite batcher holds, not yet drawn
  ops,         \* what the last RenderQueue.render call did, in order
  engine,      \* Engine: _renderCount, the backend, the errors logged
  camera,      \* the Camera component's fields
  canvas,      \* engine.canvas: width, height
  transform,   \* the camera entity's transform: world pose
  lastOp,      \* the operation that ran last
  calls,       \* render calls so far
  call,        \* the arguments of the last RenderQueue.render call
  steps,       \* camera, text and font operations so far
  textRenderer, \* the TextRenderer component's fields
  charPool,    \* TextRenderer._charRenderDataPool
  textLog,     \* what the last operation on the text renderer did
  fontRefCount, \* per font: its RefObject state, _refCount and _destroyed
  otherRenderer, \* a second TextRenderer, on the same static record pool
  subFont,     \* a SubFont: its atlas pages and _lastIndex
  fontMap,     \* Font._fontMap: the font registered under each name
  fonts,       \* the Font objects constructed so far
  fontLog,     \* the last call on the sub font or the registry and its result
  glTFResource, \* the GLTFResource of the parser context: url, gltf, buffers
  requests,    \* the requests BufferParser.parse issued, in order
  parsePromise, \* the promise BufferParser.parse returned
  loadLog      \* what parse and its callbacks did, in order

queueVars == <<renderers, items, lastSort, sortCount, before, sortLog>>

gpuVars == <<materials, programs, currentBind, pending, ops>>

cameraVars == <<camera, canvas, transform>>

textVars == <<textRenderer, charPool, textLog, fontRefCount, otherRenderer>>

fontVars == <<subFont, fontMap, fonts, fontLog>>

loaderVars == <<glTFResource, requests, parsePromise, loadLog>>

vars == <<queueVars, gpuVars, engine, cameraVars, lastOp, calls, call, steps,
          textVars, fontVars, loaderVars>>

\* ------------------------------------------------------------ array access
At(a, i) == a[i + 1]

Put(a, i, v) == [a EXCEPT ![i + 1] = v]

\* ------------------------------------------------------------- comparators
\* a.component.priority - b.component.priority || a.component._distanceForSort - b.component._distanceForSort
_compareFromNearToFar(rs, a, b) ==
  LET dp == rs[a.component].priority - rs[b.component].priority
  IN  IF dp # 0 THEN dp
      ELSE rs[a.component].distance - rs[b.component].distance

\* Mutant: the distance operands are not swapped, so far-to-near orders as
\* near-to-far does.
FarToNearNotSwapped(rs, a, b) ==
  LET dp == rs[a.component].priority - rs[b.component].priority
  IN  IF dp # 0 THEN dp
      ELSE rs[a.component].distance - rs[b.component].distance

\* a.component.priority - b.component.priority || b.component._distanceForSort - a.component._distanceForSort
_compareFromFarToNear(rs, a, b) ==
  LET dp == rs[a.component].priority - rs[b.component].priority
  IN  IF dp # 0 THEN dp
      ELSE rs[b.component].distance - rs[a.component].distance

compareFunc(rs, cmp, a, b) ==
  IF cmp = "NearToFar" THEN _compareFromNearToFar(rs, a, b)
  ELSE _compareFromFarToNear(rs, a, b)

\* ---------------------------------------------------------- insertion sort
\* Mutant: the inner loop shifts on order >= 0, moving equal elements too.
RECURSIVE InsertionInnerShiftsEqual(_, _, _, _, _, _)
InsertionInnerShiftsEqual(rs, cmp, a, from, j, element) ==
  IF j >= from /\ compareFunc(rs, cmp, At(a, j), element) >= 0
  THEN InsertionInnerShiftsEqual(rs, cmp, Put(a, j + 1, At(a, j)), from, j - 1, element)
  ELSE [a |-> a, j |-> j]

\* The inner loop of _insertionSort: for (j = i - 1; j >= from; j--), shifting
\* a[j] up while compareFunc(a[j], element) > 0; yields the array and the j
\* at which the loop stopped.
RECURSIVE InsertionInner(_, _, _, _, _, _)
InsertionInner(rs, cmp, a, from, j, element) ==
  IF j >= from /\ compareFunc(rs, cmp, At(a, j), element) > 0
  THEN InsertionInner(rs, cmp, Put(a, j + 1, At(a, j)), from, j - 1, element)
  ELSE [a |-> a, j |-> j]

\* The outer loop of _insertionSort: for (i = from + 1; i < to; i++).
RECURSIVE InsertionOuter(_, _, _, _, _, _)
InsertionOuter(rs, cmp, a, from, to, i) ==
  IF i >= to THEN a
  ELSE LET element == At(a, i)
           r == InsertionInner(rs, cmp, a, from, i - 1, element)
       IN  InsertionOuter(rs, cmp, Put(r.a, r.j + 1, element), from, to, i + 1)

_insertionSort(rs, cmp, a, from, to) ==
  InsertionOuter(rs, cmp, a, from, to, from + 1)

\* ------------------------------------------------------------- quick sort
\* Ranges of at most this many elements are insertion-sorted.
InsertionSortThreshold == 10

\* Mutant: the rotation of the c02 >= 0 branch forgets v2 = v1, so the old
\* v0 is written twice and the old v1 is lost.
MedianOfThreeLosesV1(rs, cmp, a, from, to, third_index) ==
  LET f == At(a, from)
      l == At(a, to - 1)
      m == At(a, third_index)
      c01 == compareFunc(rs, cmp, f, l)
      v0a == IF c01 > 0 THEN l ELSE f
      v1a == IF c01 > 0 THEN f ELSE l
      c02 == compareFunc(rs, cmp, v0a, m)
  IN  IF c02 >= 0
      THEN [v0 |-> m, v1 |-> v0a, v2 |-> v0a]
      ELSE IF compareFunc(rs, cmp, v1a, m) > 0
           THEN [v0 |-> v0a, v1 |-> m, v2 |-> v1a]
           ELSE [v0 |-> v0a, v1 |-> v1a, v2 |-> m]

\* Median of first, last and middle element: yields v0 <= v1 <= v2 as the
\* three pairwise comparisons of _quickSort order them.
MedianOfThree(rs, cmp, a, from, to, third_index) ==
  LET f == At(a, from)
      l == At(a, to - 1)
      m == At(a, third_index)
      c01 == compareFunc(rs, cmp, f, l)
      v0a == IF c01 > 0 THEN l ELSE f
      v1a == IF c01 > 0 THEN f ELSE l
      c02 == compareFunc(rs, cmp, v0a, m)
  IN  IF c02 >= 0
      THEN [v0 |-> m, v1 |-> v0a, v2 |-> v1a]
      ELSE IF compareFunc(rs, cmp, v1a, m) > 0
           THEN [v0 |-> v0a, v1 |-> m, v2 |-> v1a]
           ELSE [v0 |-> v0a, v1 |-> v1a, v2 |-> m]

\* do { high_start--; if (high_start == i) break partition;
\*      order = compareFunc(a[high_start], pivot); } while (order > 0);
RECURSIVE ScanDown(_, _, _, _, _, _)
ScanDown(rs, cmp, a, high_start, i, pivot) ==
  LET hs == high_start - 1
  IN  IF hs = i THEN [high_start |-> hs, broke |-> TRUE, order |-> 0]
      ELSE LET order == compareFunc(rs, cmp, At(a, hs), pivot)
           IN  IF order > 0 THEN ScanDown(rs, cmp, a, hs, i, pivot)
               ELSE [high_start |-> hs, broke |-> FALSE, order |-> order]

\* The partition loop with the low_end++ of the order < 0 branch left out.
RECURSIVE PartitionLoopKeepsLowEnd(_, _, _, _, _, _, _)
PartitionLoopKeepsLowEnd(rs, cmp, a, low_end, high_start, i, pivot) ==
  IF i >= high_start
  THEN [a |-> a, low_end |-> low_end, high_start |-> high_start]
  ELSE
    LET element == At(a, i)
        order == compareFunc(rs, cmp, element, pivot)
    IN  IF order < 0
        THEN PartitionLoopKeepsLowEnd(rs, cmp, Put(Put(a, i, At(a, low_end)), low_end, element),
                                      low_end, high_start, i + 1, pivot)
        ELSE IF order > 0
        THEN
          LET s == ScanDown(rs, cmp, a, high_start, i, pivot)
          IN  IF s.broke
              THEN [a |-> a, low_end |-> low_end, high_start |-> s.high_start]
              ELSE
                LET a1 == Put(Put(a, i, At(a, s.high_start)), s.high_start, element)
                IN  IF s.order < 0
                    THEN PartitionLoopKeepsLowEnd(rs, cmp,
                                       Put(Put(a1, i, At(a1, low_end)), low_end, At(a1, i)),
                                       low_end + 1, s.high_start, i + 1, pivot)
                    ELSE PartitionLoopKeepsLowEnd(rs, cmp, a1, low_end, s.high_start, i + 1, pivot)
        ELSE PartitionLoopKeepsLowEnd(rs, cmp, a, low_end, high_start, i + 1, pivot)

\* partition: for (let i = low_end + 1; i < high_start; i++) { ... }
RECURSIVE PartitionLoop(_, _, _, _, _, _, _)
PartitionLoop(rs, cmp, a, low_end, high_start, i, pivot) ==
  IF i >= high_start
  THEN [a |-> a, low_end |-> low_end, high_start |-> high_start]
  ELSE
    LET element == At(a, i)
        order == compareFunc(rs, cmp, element, pivot)
    IN  IF order < 0
        THEN PartitionLoop(rs, cmp, Put(Put(a, i, At(a, low_end)), low_end, element),
                           low_end + 1, high_start, i + 1, pivot)
        ELSE IF order > 0
        THEN
          LET s == ScanDown(rs, cmp, a, high_start, i, pivot)
          IN  IF s.broke
              THEN [a |-> a, low_end |-> low_end, high_start |-> s.high_start]
              ELSE
                LET a1 == Put(Put(a, i, At(a, s.high_start)), s.high_start, element)
                IN  IF s.order < 0
                    THEN PartitionLoop(rs, cmp,
                                       Put(Put(a1, i, At(a1, low_end)), low_end, At(a1, i)),
                                       low_end + 1, s.high_start, i + 1, pivot)
                    ELSE PartitionLoop(rs, cmp, a1, low_end, s.high_start, i + 1, pivot)
        ELSE PartitionLoop(rs, cmp, a, low_end, high_start, i + 1, pivot)

\* Mutant: the pivot is written to a[low_end] without first moving a[low_end]
\* to a[third_index].
PartitionOverwritesLowEnd(rs, cmp, a, from, to) ==
  LET third_index == (from + to) \div 2
      v == MedianOfThree(rs, cmp, a, from, to, third_index)
      a1 == Put(Put(a, from, v.v0), to - 1, v.v2)
      low_end == from + 1
      high_start == to - 1
      a3 == Put(a1, low_end, v.v1)
  IN  PartitionLoop(rs, cmp, a3, low_end, high_start, low_end + 1, v.v1)

\* One pass of the while (true) body of _quickSort over a range longer than
\* the threshold: pivot selection, pivot placement and the partition loop.
Partition(rs, cmp, a, from, to) ==
  LET third_index == (from + to) \div 2
      v == MedianOfThree(rs, cmp, a, from, to, third_index)
      a1 == Put(Put(a, from, v.v0), to - 1, v.v2)
      low_end == from + 1
      high_start == to - 1
      a2 == Put(a1, third_index, At(a1, low_end))
      a3 == Put(a2, low_end, v.v1)
  IN  PartitionLoop(rs, cmp, a3, low_end, high_start, low_end + 1, v.v1)

InsertionStep(from, to, a) ==
  [kind |-> "insertion", from |-> from, to |-> to, low_end |-> from,
   high_start |-> to, a |-> a]

PartitionStep(from, to, p) ==
  [kind |-> "partition", from |-> from, to |-> to, low_end |-> p.low_end,
   high_start |-> p.high_start, a |-> p.a]

\* _quickSort recursing into the longer side and looping on the shorter.
RECURSIVE _quickSortLongerFirst(_, _, _, _, _)
_quickSortLongerFirst(rs, cmp, st, from, to) ==
  IF to - from <= InsertionSortThreshold
  THEN LET a == _insertionSort(rs, cmp, st.a, from, to)
       IN  [a |-> a, log |-> Append(st.log, InsertionStep(from, to, a))]
  ELSE
    LET p == Partition(rs, cmp, st.a, from, to)
        st1 == [a |-> p.a, log |-> Append(st.log, PartitionStep(from, to, p))]
    IN  IF to - p.high_start > p.low_end - from
        THEN _quickSortLongerFirst(rs, cmp,
                                   _quickSortLongerFirst(rs, cmp, st1, p.high_start, to),
                                   from, p.low_end)
        ELSE _quickSortLongerFirst(rs, cmp,
                                   _quickSortLongerFirst(rs, cmp, st1, from, p.low_end),
                                   p.high_start, to)

\* _quickSort; st carries the array and the log of the steps taken so far.
\* The loop continues on the longer side after recursing into the shorter.
RECURSIVE _quickSort(_, _, _, _, _)
_quickSort(rs, cmp, st, from, to) ==
  IF to - from <= InsertionSortThreshold
  THEN LET a == _insertionSort(rs, cmp, st.a, from, to)
       IN  [a |-> a, log |-> Append(st.log, InsertionStep(from, to, a))]
  ELSE
    LET p == Partition(rs, cmp, st.a, from, to)
        st1 == [a |-> p.a, log |-> Append(st.log, PartitionStep(from, to, p))]
    IN  IF to - p.high_start < p.low_end - from
        THEN _quickSort(rs, cmp, _quickSort(rs, cmp, st1, p.high_start, to),
                        from, p.low_end)
        ELSE _quickSort(rs, cmp, _quickSort(rs, cmp, st1, from, p.low_end),
                        p.high_start, to)

\* sort(compareFunc): _quickSort(this.items, 0, this.items.length, compareFunc)
sort(rs, cmp, a) == _quickSort(rs, cmp, [a |-> a, log |-> <<>>], 0, Len(a))

\* ----------------------------------------------------------- render data
Null == "null"

\* renderPassFlag & mask on non-negative layer bit sets.
RECURSIVE BitAnd(_, _)
BitAnd(a, b) ==
  IF a = 0 \/ b = 0 THEN 0
  ELSE (a % 2) * (b % 2) + 2 * BitAnd(a \div 2, b \div 2)

\* Identity of a renderer component, as the upload stamps hold it.
RendererName == <<"r1", "r2", "r3", "r4", "r5">>

\* The materials of the scene, with the shader pass and the macros of each.
MaterialIds == {"m1", "m2", "m3", "m4"}

\* engine._magentaMaterial
MagentaMaterial == "magenta"

MaterialPass(m) ==
  CASE m = "m1" -> "p1"
    [] m = "m2" -> "p1"
    [] m = "m3" -> "pBad"
    [] m = "m4" -> "p2"
    [] OTHER -> "pMagenta"

\* materialData._macroCollection
MaterialMacros(m) == IF m = "m2" THEN {"A"} ELSE {}

\* renderer._globalShaderMacro
RendererMacros(r) == {}

Passes == {"p1", "p2", "pBad"}

MacroSets == {{}, {"A"}}

ProgramKeys == [pass : Passes, macros : MacroSets]

NoProgram == [pass |-> "none", macros |-> {}]

\* The program the sprite batcher binds for its batches.
SpriteProgram == [pass |-> "pSprite", macros |-> {}]

\* shaderPass._getShaderProgram(engine, compileMacros): one program for each
\* pass and macro permutation.
_getShaderProgram(pass, compileMacros) == [pass |-> pass, macros |-> compileMacros]

\* program.isValid: the programs of pass pBad failed to compile.
isValid(program) == program.pass # "pBad"

\* ShaderProgram._uploadRenderCount before the first upload.
InitialUploadRenderCount == -1

InitialStamps ==
  [uploadRenderCount |-> InitialUploadRenderCount, uploadScene |-> Null,
   uploadCamera |-> Null, uploadRenderer |-> Null, uploadMaterial |-> Null]

Op(op, item, program, block, data) ==
  [op |-> op, item |-> item, program |-> program, block |-> block, data |-> data]

Log(g, op) == [g EXCEPT !.ops = Append(@, op)]

\* ------------------------------------------------------ RenderQueue.render
\* SpriteBatcher.flush: draws what the batcher holds, as one batch.
flush(g, item) ==
  LET g1 == Log(g, Op("flush", item, NoProgram, "none", Null))
  IN  IF g.pending = <<>> THEN g1
      ELSE [g1 EXCEPT
              !.ops = @ \o [k \in 1..Len(g.pending) |->
                              Op("spriteDraw", g.pending[k], SpriteProgram, "none", Null)],
              !.pending = <<>>,
              !.currentBind = SpriteProgram]

\* SpriteBatcher.drawElement: the element joins the pending batch.
drawElement(g, e) ==
  [Log(g, Op("drawElement", e.id, NoProgram, "none", Null))
     EXCEPT !.pending = Append(@, e.id)]

\* program.uploadAll(block, data)
uploadAll(g, item, program, block, data) ==
  Log(g, Op("uploadAll", item, program, block, data))

\* program.uploadTextures(block, data)
uploadTextures(g, item, program, block, data) ==
  Log(g, Op("uploadTextures", item, program, block, data))

\* program.uploadUnGroupTextures()
uploadUnGroupTextures(g, item, program) ==
  Log(g, Op("uploadUnGroupTextures", item, program, "ungroup", Null))

Stamp(g, program, field, value) ==
  [g EXCEPT !.programs[program][field] = value]

\* The uploads of the full branch without the material block.
FullUploadCoreSkipsMaterial(g, item, program, d) ==
  LET g1 == Log(g, Op("groupingOtherUniformBlock", item, program, "none", Null))
      g2 == uploadAll(g1, item, program, "scene", d.scene)
      g3 == uploadAll(g2, item, program, "camera", d.camera)
      g4 == uploadAll(g3, item, program, "renderer", d.renderer)
  IN  uploadUnGroupTextures(g4, item, program)

\* groupingOtherUniformBlock, uploadAll of the four blocks and the ungrouped
\* textures.
FullUploadCore(g, item, program, d) ==
  LET g1 == Log(g, Op("groupingOtherUniformBlock", item, program, "none", Null))
      g2 == uploadAll(g1, item, program, "scene", d.scene)
      g3 == uploadAll(g2, item, program, "camera", d.camera)
      g4 == uploadAll(g3, item, program, "renderer", d.renderer)
      g5 == uploadAll(g4, item, program, "material", d.material)
  IN  uploadUnGroupTextures(g5, item, program)

\* The full branch without program._uploadRenderCount = renderCount.
FullUploadKeepsRenderCount(g, item, program, d) ==
  [FullUploadCore(g, item, program, d) EXCEPT !.programs[program] =
     [uploadRenderCount |-> g.programs[program].uploadRenderCount,
      uploadScene |-> d.scene, uploadCamera |-> d.camera,
      uploadRenderer |-> d.renderer, uploadMaterial |-> d.material]]

\* The switchRenderCount branch: the uploads of FullUploadCore and the five
\* stamps.
FullUpload(g, item, program, d) ==
  [FullUploadCore(g, item, program, d) EXCEPT !.programs[program] =
     [uploadRenderCount |-> d.renderCount, uploadScene |-> d.scene,
      uploadCamera |-> d.camera, uploadRenderer |-> d.renderer,
      uploadMaterial |-> d.material]]

\* One block of the else branch uploaded in full whatever its stamp is.
DiffBlockAlwaysUploads(g, item, program, block, field, current, switchProgram) ==
  Stamp(uploadAll(g, item, program, block, current), program, field, current)

\* One block of the else branch: uploadAll and a new stamp when the stamped
\* data source differs, else the textures alone when the program was switched.
DiffBlock(g, item, program, block, field, current, switchProgram) ==
  IF g.programs[program][field] # current
  THEN Stamp(uploadAll(g, item, program, block, current), program, field, current)
  ELSE IF switchProgram
       THEN uploadTextures(g, item, program, block, current)
       ELSE g

\* The else branch without the camera block.
DiffUploadSkipsCamera(g, item, program, d, switchProgram) ==
  LET g1 == DiffBlock(g, item, program, "scene", "uploadScene", d.scene, switchProgram)
      g3 == DiffBlock(g1, item, program, "renderer", "uploadRenderer", d.renderer, switchProgram)
      g4 == DiffBlock(g3, item, program, "material", "uploadMaterial", d.material, switchProgram)
  IN  IF switchProgram THEN uploadUnGroupTextures(g4, item, program) ELSE g4

\* The else branch: the four blocks in order, then the ungrouped textures
\* when the program was switched.
DiffUpload(g, item, program, d, switchProgram) ==
  LET g1 == DiffBlock(g, item, program, "scene", "uploadScene", d.scene, switchProgram)
      g2 == DiffBlock(g1, item, program, "camera", "uploadCamera", d.camera, switchProgram)
      g3 == DiffBlock(g2, item, program, "renderer", "uploadRenderer", d.renderer, switchProgram)
      g4 == DiffBlock(g3, item, program, "material", "uploadMaterial", d.material, switchProgram)
  IN  IF switchProgram THEN uploadUnGroupTextures(g4, item, program) ELSE g4

\* const material = element.material.destroyed ? engine._magentaMaterial
\*                                              : element.material
DestroyedMaterialKept(e, mats) == e.material

EffectiveMaterial(e, mats) ==
  IF mats[e.material].destroyed THEN MagentaMaterial ELSE e.material

\* The program of a mesh element: the first pass of customShader, else of
\* replaceMaterial's shader, else the element's own pass, compiled with the
\* union of the renderer's macros and the effective material's.
ResolveProgram(e, ctx) ==
  LET renderer == RendererName[e.component]
      material == EffectiveMaterial(e, ctx.materials)
      compileMacros == RendererMacros(renderer) \cup MaterialMacros(material)
      pass == IF ctx.customShader # Null THEN ctx.customShader
              ELSE IF ctx.replaceMaterial # Null THEN MaterialPass(ctx.replaceMaterial)
              ELSE e.shaderPass
  IN  _getShaderProgram(pass, compileMacros)

\* The loop body from program.bind() to rhi.drawPrimitive.
DrawMesh(g, e, ctx, program) ==
  LET d == [scene |-> ctx.scene, camera |-> ctx.camera,
            renderer |-> RendererName[e.component],
            material |-> EffectiveMaterial(e, ctx.materials),
            renderCount |-> ctx.renderCount]
      switchProgram == g.currentBind # program
      g3 == [Log(g, Op("bind", e.id, program, "none",
                       IF switchProgram THEN "switched" ELSE "same"))
               EXCEPT !.currentBind = program]
      switchRenderCount == ctx.renderCount # g3.programs[program].uploadRenderCount
      g4 == IF switchRenderCount
            THEN FullUpload(g3, e.id, program, d)
            ELSE DiffUpload(g3, e.id, program, d, switchProgram)
      g5 == Log(g4, Op("renderState._apply", e.id, program, "none", Null))
  IN  Log(g5, Op("drawPrimitive", e.id, program, "none", Null))

\* The mesh branch up to the validity check when the batcher is left alone.
BeforeProgramWithoutFlush(g, e, ctx) ==
  LET material == EffectiveMaterial(e, ctx.materials)
      preRenderer == IF ctx.replaceMaterial # Null THEN ctx.replaceMaterial ELSE material
  IN  Log(g, Op("_preRender", e.id, NoProgram, "none", preRenderer))

\* The mesh branch up to the validity check.
BeforeProgram(g, e, ctx) ==
  LET g1 == flush(g, e.id)
      material == EffectiveMaterial(e, ctx.materials)
      preRenderer == IF ctx.replaceMaterial # Null THEN ctx.replaceMaterial ELSE material
  IN  Log(g1, Op("_preRender", e.id, NoProgram, "none", preRenderer))

RenderMeshDrawsInvalid(g, e, ctx) ==
  DrawMesh(BeforeProgram(g, e, ctx), e, ctx, ResolveProgram(e, ctx))

\* The mesh branch of the loop body, for one element that passed the mask.
RenderMesh(g, e, ctx) ==
  LET g2 == BeforeProgram(g, e, ctx)
      program == ResolveProgram(e, ctx)
  IN  IF ~isValid(program) THEN g2
      ELSE DrawMesh(g2, e, ctx, program)

\* The loop without the mask test.
RECURSIVE RenderLoopIgnoresMask(_, _, _, _, _)
RenderLoopIgnoresMask(g, a, rs, i, ctx) ==
  IF i >= Len(a) THEN g
  ELSE
    LET item == At(a, i)
    IN  IF item.mesh
        THEN RenderLoopIgnoresMask(RenderMesh(g, item, ctx), a, rs, i + 1, ctx)
        ELSE RenderLoopIgnoresMask(drawElement(g, item), a, rs, i + 1, ctx)

\* for (let i = 0, n = items.length; i < n; i++) { ... }
RECURSIVE RenderLoop(_, _, _, _, _)
RenderLoop(g, a, rs, i, ctx) ==
  IF i >= Len(a) THEN g
  ELSE
    LET item == At(a, i)
        renderPassFlag == rs[item.component].layer
    IN  IF BitAnd(renderPassFlag, ctx.mask) = 0
        THEN RenderLoop(g, a, rs, i + 1, ctx)
        ELSE IF item.mesh
        THEN RenderLoop(RenderMesh(g, item, ctx), a, rs, i + 1, ctx)
        ELSE RenderLoop(drawElement(g, item), a, rs, i + 1, ctx)

\* The item id under which the flush after the loop is logged.
AfterLoop == -1

\* RenderQueue.render(camera, replaceMaterial, mask, customShader), from the
\* GPU state g; nothing happens on an empty queue.
render(g, a, rs, ctx) ==
  IF Len(a) = 0 THEN g
  ELSE flush(RenderLoop(g, a, rs, 0, ctx), AfterLoop)


\* ------------------------------------------------------------ camera data
\* A rational n/d in lowest terms with d > 0, as <<n, d>>.
RECURSIVE GCD(_, _)
GCD(a, b) == IF b = 0 THEN a ELSE GCD(b, a % b)

Abs(n) == IF n < 0 THEN -n ELSE n

Ratio(n, d) ==
  LET g == GCD(Abs(n), Abs(d))
      sign == IF d < 0 THEN -1 ELSE 1
  IN  <<sign * (n \div g), sign * (d \div g)>>

RatioTimes(k, r) == Ratio(k * r[1], r[2])

\* customAspectRatio when no override is set.
Undefined == <<>>

\* new Matrix(), the identity.
Identity == [kind |-> "identity"]

\* MathUtil.degreeToRadian(d), as the multiple of pi it is.
degreeToRadian(d) == Ratio(d, 180)

\* Matrix.perspective(fovy, aspect, near, far, out)
perspective(fovy, aspect, near, far) ==
  [kind |-> "perspective", fovy |-> fovy, aspect |-> aspect, near |-> near, far |-> far]

\* Matrix.ortho(left, right, bottom, top, near, far, out)
ortho(left, right, bottom, top, near, far) ==
  [kind |-> "ortho", left |-> left, right |-> right, bottom |-> bottom, top |-> top,
   near |-> near, far |-> far]

\* Matrix.invert(m, out)
invert(m) == [kind |-> "inverse", of |-> m]

\* Matrix.multiply(l, r, out)
multiply(l, r) == [kind |-> "product", l |-> l, r |-> r]

\* Matrix.rotationTranslation(worldRotationQuaternion, worldPosition, out), inverted.
viewOf(pose) == [kind |-> "view", pose |-> pose]

\* transform.worldMatrix
worldMatrix(pose) == [kind |-> "world", pose |-> pose]

\* BoundingFrustum.calculateFromMatrix(viewProjectionMatrix)
calculateFromMatrix(m) == [kind |-> "frustum", of |-> m]

\* Layer.Everything, on the two layer bits of the model.
Everything == 3

\* The camera as its constructor and field initialisers leave it; the near
\* clip plane is counted in tenths of a unit.
NewCamera ==
  [isProjMatSetting |-> FALSE,
   nearClipPlane |-> 1,
   farClipPlane |-> 100,
   fieldOfView |-> 45,
   orthographicSize |-> 10,
   isProjectionDirty |-> TRUE,
   isInvProjMatDirty |-> TRUE,
   isFrustumProjectDirty |-> TRUE,
   customAspectRatio |-> Undefined,
   viewport |-> [x |-> <<0, 1>>, y |-> <<0, 1>>, z |-> <<1, 1>>, w |-> <<1, 1>>],
   isOrthographic |-> FALSE,
   projectionMatrix |-> Identity,
   viewMatrix |-> Identity,
   viewProjectionMatrix |-> Identity,
   forward |-> [kind |-> "zero"],
   inverseProjectionMatrix |-> Identity,
   lastAspectSize |-> <<0, 0>>,
   invViewProjMat |-> Identity,
   frustum |-> [kind |-> "frustum0"],
   isViewMatrixDirty |-> TRUE,
   isInvViewProjDirty |-> TRUE,
   frustumViewChangeFlag |-> TRUE,
   enableFrustumCulling |-> TRUE,
   cullingMask |-> Everything,
   destroyed |-> FALSE,
   pipelineDestroyed |-> FALSE,
   shaderDataRefCount |-> 1,
   shaderData |-> [kind |-> "empty"]]

\* get aspectRatio: the override, else canvas width x viewport.z over canvas
\* height x viewport.w.
aspectRatio(cam, cv) ==
  IF cam.customAspectRatio # Undefined THEN cam.customAspectRatio
  ELSE Ratio(cv.width * cam.viewport.z[1] * cam.viewport.w[2],
             cv.height * cam.viewport.w[1] * cam.viewport.z[2])

\* The matrix the camera parameters derive on a canvas.
DerivedProjection(cam, cv) ==
  IF ~cam.isOrthographic
  THEN perspective(degreeToRadian(cam.fieldOfView), aspectRatio(cam, cv),
                   cam.nearClipPlane, cam.farClipPlane)
  ELSE LET width == RatioTimes(cam.orthographicSize, aspectRatio(cam, cv))
           height == Ratio(cam.orthographicSize, 1)
       IN  ortho(RatioTimes(-1, width), width, RatioTimes(-1, height), height,
                 cam.nearClipPlane, cam.farClipPlane)

\* The getter deriving only when the matrix is dirty and either the canvas
\* size is new or no matrix is set manually.
ProjectionMatrixOnlyWhenDirty(cam, cv) ==
  IF /\ cam.isProjectionDirty
     /\ \/ cam.lastAspectSize # <<cv.width, cv.height>>
        \/ ~cam.isProjMatSetting
  THEN [cam EXCEPT !.isProjectionDirty = FALSE,
                   !.lastAspectSize = <<cv.width, cv.height>>,
                   !.projectionMatrix = DerivedProjection(cam, cv)]
  ELSE cam

\* The read with the early return decided by the canvas size alone.
ProjectionMatrixIgnoresDirty(cam, cv) ==
  IF /\ cam.lastAspectSize[1] = cv.width
     /\ cam.lastAspectSize[2] = cv.height
  THEN cam
  ELSE [cam EXCEPT !.isProjectionDirty = FALSE,
                   !.lastAspectSize = <<cv.width, cv.height>>,
                   !.projectionMatrix = DerivedProjection(cam, cv)]

\* get projectionMatrix: the camera after the read; the value returned is its
\* projectionMatrix field.
projectionMatrix(cam, cv) ==
  IF /\ (~cam.isProjectionDirty \/ cam.isProjMatSetting)
     /\ cam.lastAspectSize[1] = cv.width
     /\ cam.lastAspectSize[2] = cv.height
  THEN cam
  ELSE [cam EXCEPT !.isProjectionDirty = FALSE,
                   !.lastAspectSize = <<cv.width, cv.height>>,
                   !.projectionMatrix = DerivedProjection(cam, cv)]

\* get viewMatrix without this._isViewMatrixDirty.flag = false
ViewMatrixKeepsFlag(cam, pose) ==
  IF cam.isViewMatrixDirty
  THEN [cam EXCEPT !.viewMatrix = viewOf(pose)]
  ELSE cam

\* get viewMatrix
viewMatrix(cam, pose) ==
  IF cam.isViewMatrixDirty
  THEN [cam EXCEPT !.isViewMatrixDirty = FALSE, !.viewMatrix = viewOf(pose)]
  ELSE cam

\* _projMatChange() without this._isInvViewProjDirty.flag = true
ProjMatChangeKeepsInvViewProj(cam) ==
  [cam EXCEPT !.isFrustumProjectDirty = TRUE,
              !.isProjectionDirty = TRUE,
              !.isInvProjMatDirty = TRUE]

\* _projMatChange()
_projMatChange(cam) ==
  [cam EXCEPT !.isFrustumProjectDirty = TRUE,
              !.isProjectionDirty = TRUE,
              !.isInvProjMatDirty = TRUE,
              !.isInvViewProjDirty = TRUE]

\* _getInverseProjectionMatrix()
_getInverseProjectionMatrix(cam, cv) ==
  IF cam.isInvProjMatDirty
  THEN LET c1 == projectionMatrix([cam EXCEPT !.isInvProjMatDirty = FALSE], cv)
       IN  [c1 EXCEPT !.inverseProjectionMatrix = invert(c1.projectionMatrix)]
  ELSE cam

\* _getInvViewProjMat()
_getInvViewProjMat(cam, cv, pose) ==
  IF cam.isInvViewProjDirty
  THEN LET c1 == _getInverseProjectionMatrix([cam EXCEPT !.isInvViewProjDirty = FALSE], cv)
       IN  [c1 EXCEPT !.invViewProjMat =
                        multiply(worldMatrix(pose), c1.inverseProjectionMatrix)]
  ELSE cam

\* The frustum step with the two marks cleared whether or not culling is
\* enabled.
UpdateFrustumClearsAlways(cam) ==
  IF cam.enableFrustumCulling /\ (cam.frustumViewChangeFlag \/ cam.isFrustumProjectDirty)
  THEN [cam EXCEPT !.frustum = calculateFromMatrix(cam.viewProjectionMatrix),
                   !.frustumViewChangeFlag = FALSE,
                   !.isFrustumProjectDirty = FALSE]
  ELSE [cam EXCEPT !.frustumViewChangeFlag = FALSE,
                   !.isFrustumProjectDirty = FALSE]

\* compute cull frustum.
UpdateFrustum(cam) ==
  IF cam.enableFrustumCulling /\ (cam.frustumViewChangeFlag \/ cam.isFrustumProjectDirty)
  THEN [cam EXCEPT !.frustum = calculateFromMatrix(cam.viewProjectionMatrix),
                   !.frustumViewChangeFlag = FALSE,
                   !.isFrustumProjectDirty = FALSE]
  ELSE cam

\* The mip level with no clamp.
MipLevelPassedThrough(mipLevel, isWebGL2) == mipLevel

\* if (mipLevel > 0 && !isWebGL2) { mipLevel = 0; Logger.error(...) }
ClampMipLevel(mipLevel, isWebGL2) ==
  IF mipLevel > 0 /\ ~isWebGL2 THEN 0 ELSE mipLevel

\* The part of Camera.render before the pipeline renders: matrices, forward,
\* frustum, shader data.
RenderPrepare(cam, cv, pose) ==
  LET c1 == projectionMatrix(cam, cv)
      c2 == viewMatrix(c1, pose)
      c3 == [c2 EXCEPT
               !.viewProjectionMatrix = multiply(c2.projectionMatrix, c2.viewMatrix),
               !.forward = IF c2.isOrthographic
                           THEN [kind |-> "worldForward", pose |-> pose]
                           ELSE [kind |-> "worldPosition", pose |-> pose]]
      c4 == UpdateFrustum(c3)
  IN  [c4 EXCEPT !.shaderData = [kind |-> "cameraData", pose |-> pose]]


\* ---------------------------------------------------------------- text data
\* enum DirtyFlag: a bit mask, held as the set of the bits that are set, so
\* that | is union, & is intersection and &= ~ is set difference.
DirtyFlag ==
  [SubFont             |-> {"SubFont"},
   LocalPositionBounds |-> {"LocalPositionBounds"},
   WorldPosition       |-> {"WorldPosition"},
   WorldBounds         |-> {"WorldBounds"},
   MaskInteraction     |-> {"MaskInteraction"},
   Position            |-> {"LocalPositionBounds", "WorldPosition", "WorldBounds"},
   Font                |-> {"SubFont", "LocalPositionBounds", "WorldPosition",
                            "WorldBounds"}]

_isContainDirtyFlag(r, type) == (r.dirtyFlag \cap type) # {}

\* this._dirtyFlag = type
_setDirtyFlagTrueOverwrites(r, type) == [r EXCEPT !.dirtyFlag = type]

\* this._dirtyFlag |= type
_setDirtyFlagTrue(r, type) == [r EXCEPT !.dirtyFlag = @ \cup type]

\* this._dirtyFlag = 0
_setDirtyFlagFalseAll(r, type) == [r EXCEPT !.dirtyFlag = {}]

\* this._dirtyFlag &= ~type
_setDirtyFlagFalse(r, type) == [r EXCEPT !.dirtyFlag = @ \ type]

\* Engine._pixelsPerUnit.
PixelsPerUnit == 128

\* Glyphs of the sub font the renderer lays text out with, as the glyph cache
\* answers _getCharInfo: pixel metrics and the atlas page holding the bitmap.
\* "A" and "B" have w = xAdvance, "j" does not, " " has no bitmap (h = 0) and
\* "j" lies on the second atlas page.
CharInfos ==
  [A     |-> [w |-> 80, h |-> 90,  xAdvance |-> 80, ascent |-> 70, descent |-> 20, index |-> 0],
   B     |-> [w |-> 96, h |-> 90,  xAdvance |-> 96, ascent |-> 70, descent |-> 20, index |-> 0],
   j     |-> [w |-> 30, h |-> 100, xAdvance |-> 40, ascent |-> 60, descent |-> 40, index |-> 1],
   space |-> [w |-> 0,  h |-> 0,   xAdvance |-> 40, ascent |-> 0,  descent |-> 0,  index |-> 0]]

\* SubFont._getCharInfo of the renderer's sub font.
CharInfo(char) == CharInfos[char]

\* SubFont._getLastIndex of the renderer's sub font: its glyphs fill two pages.
CharFontLastIndex == 1

\* The strings a text is set to; "" is the empty sequence.
Texts == {<<>>, <<"A", "B">>, <<"j", "space", "A">>}

\* TextUtils: nominal line height of the font in pixels, line spacing added.
FontLineHeight == 100

RECURSIVE SumAdvance(_)
SumAdvance(line) ==
  IF line = <<>> THEN 0
  ELSE CharInfo(Head(line)).xAdvance + SumAdvance(Tail(line))

RECURSIVE MaxMetric(_, _)
MaxMetric(line, field) ==
  IF line = <<>> THEN 0
  ELSE LET rest == MaxMetric(Tail(line), field)
           here == CharInfo(Head(line))[field]
       IN  IF here > rest THEN here ELSE rest

\* Greedy line breaking: a character that would make the line wider than the
\* renderer starts a new line; a line holds at least one character.
RECURSIVE WrapLines(_, _, _)
WrapLines(text, line, rendererWidth) ==
  IF text = <<>> THEN <<line>>
  ELSE IF line # <<>> /\ SumAdvance(line) + CharInfo(Head(text)).xAdvance > rendererWidth
       THEN <<line>> \o WrapLines(text, <<>>, rendererWidth)
       ELSE WrapLines(Tail(text), Append(line, Head(text)), rendererWidth)

\* The metrics record TextUtils returns for a list of lines.
TextMetrics(r, lines) ==
  [lines        |-> lines,
   lineWidths   |-> [i \in 1..Len(lines) |-> SumAdvance(lines[i])],
   lineHeight   |-> FontLineHeight + r.lineSpacing,
   lineMaxSizes |-> [i \in 1..Len(lines) |->
                       [ascent  |-> MaxMetric(lines[i], "ascent"),
                        descent |-> MaxMetric(lines[i], "descent")]],
   height       |-> Len(lines) * (FontLineHeight + r.lineSpacing)]

\* TextUtils.measureTextWithoutWrap(renderer): the text is one line.
measureTextWithoutWrap(r) == TextMetrics(r, <<r.text>>)

\* TextUtils.measureTextWithWrap(renderer).
measureTextWithWrap(r) ==
  TextMetrics(r, WrapLines(r.text, <<>>, r.width * PixelsPerUnit))

\* A CharRenderData as the pool constructs it: no glyph, no texture (-1) and
\* no world positions computed yet.
NewCharRenderData(id) ==
  [id |-> id, char |-> "", texture |-> -1,
   localPositions |-> <<0, 0, 0, 0>>,
   positions |-> [pose |-> -1, local |-> <<0, 0, 0, 0>>]]

\* CharRenderDataPool: the records it holds, a stack, and how many records it
\* has constructed so far.
NewCharRenderDataPool == [free |-> <<>>, created |-> 0]

\* CharRenderDataPool.get(): the record on top of the stack, a new record when
\* the stack is empty.
PoolGet(pool) ==
  IF pool.free = <<>>
  THEN [record |-> NewCharRenderData(pool.created + 1),
        pool   |-> [pool EXCEPT !.created = @ + 1]]
  ELSE [record |-> pool.free[Len(pool.free)],
        pool   |-> [pool EXCEPT !.free = SubSeq(@, 1, Len(@) - 1)]]

\* CharRenderDataPool.put(record).
PoolPut(pool, record) == [pool EXCEPT !.free = Append(@, record)]

RECURSIVE PoolPutAll(_, _)
PoolPutAll(pool, records) ==
  IF records = <<>> THEN pool
  ELSE PoolPutAll(PoolPut(pool, Head(records)), Tail(records))

\* The TextRenderer after its field initialisers and constructor.  Positions
\* of the local quads and bounds are numerators over 4 * PixelsPerUnit, which
\* makes every product with 0.5 and with 1 / _pixelsPerUnit an integer.
\* _subFont is the triple of font, size and style the sub font was asked for
\* with, the empty tuple while it is null.
NewTextRenderer ==
  [text |-> <<>>, width |-> 0, height |-> 0,
   font |-> "textDefaultFont", fontSize |-> 24, fontStyle |-> "None",
   lineSpacing |-> 0,
   horizontalAlignment |-> "Center", verticalAlignment |-> "Center",
   enableWrapping |-> FALSE, overflowMode |-> "Overflow",
   maskInteraction |-> "None",
   dirtyFlag |-> DirtyFlag.Font,
   subFont |-> <<>>,
   charRenderDatas |-> <<>>,
   localBounds |-> [min |-> <<0, 0, 0>>, max |-> <<0, 0, 0>>],
   bounds |-> [pose |-> 0, local |-> [min |-> <<0, 0, 0>>, max |-> <<0, 0, 0>>]],
   stencilFor |-> Null,
   pose |-> 0,
   destroyed |-> FALSE]

\* The fonts a text renderer is given: engine._textDefaultFont and another.
TextFonts == {"textDefaultFont", "Arial"}

\* RefObject._addRefCount(value) on font
_addRefCount(refs, font, value) == [refs EXCEPT ![font].refCount = @ + value]

\* font && font._addRefCount(-1)
ReleaseFont(refs, font) == IF font # Null THEN _addRefCount(refs, font, -1) ELSE refs

\* value && value._addRefCount(1)
AcquireFont(refs, font) == IF font # Null THEN _addRefCount(refs, font, 1) ELSE refs

\* set font that leaves the reference on the last font.
setFontKeepsLast(r, refs, value) ==
  IF r.font # value
  THEN [renderer |-> _setDirtyFlagTrue([r EXCEPT !.font = value], DirtyFlag.Font),
        refs     |-> AcquireFont(refs, value)]
  ELSE [renderer |-> r, refs |-> refs]

\* set font(value): when the value differs from the font held, the reference
\* moves from the last font to the new one and the font flags are set.
setFont(r, refs, value) ==
  IF r.font # value
  THEN [renderer |-> _setDirtyFlagTrue([r EXCEPT !.font = value], DirtyFlag.Font),
        refs     |-> AcquireFont(ReleaseFont(refs, r.font), value)]
  ELSE [renderer |-> r, refs |-> refs]

\* What one operation on the renderer did: the stages it ran in order, the
\* records and elements it took from and returned to the pools, and the
\* elements it pushed to the render pipeline.
NoTextLog ==
  [stages |-> <<>>, charGets |-> 0, charPuts |-> 0, spriteGets |-> 0,
   textGets |-> 0, pushed |-> <<>>]

\* Number.MAX_SAFE_INTEGER and Number.MIN_SAFE_INTEGER at the scale of the
\* model: beyond every coordinate the glyph metrics above produce.
MAX_SAFE_INTEGER == 1000000000

MIN_SAFE_INTEGER == -MAX_SAFE_INTEGER

Min2(a, b) == IF a < b THEN a ELSE b

Max2(a, b) == IF a > b THEN a ELSE b

\* _updateLocalData: startY before the first line, by vertical alignment.
StartY(r, textMetrics) ==
  LET lineHeight     == textMetrics.lineHeight
      linesLen       == Len(textMetrics.lines)
      rendererHeight == r.height * PixelsPerUnit
      topDiff        == 2 * lineHeight - 4 * textMetrics.lineMaxSizes[1].ascent
      bottomDiff     == 2 * lineHeight - 4 * textMetrics.lineMaxSizes[linesLen].descent - 4
  IN  CASE r.verticalAlignment = "Top" ->
             2 * rendererHeight - 2 * lineHeight + topDiff
        [] r.verticalAlignment = "Center" ->
             2 * textMetrics.height - 2 * lineHeight - (bottomDiff - topDiff) \div 2
        [] r.verticalAlignment = "Bottom" ->
             4 * textMetrics.height - 2 * rendererHeight - 2 * lineHeight - bottomDiff

\* A line's startX by horizontal alignment, with every line starting at the
\* left edge of the renderer.
StartXAlwaysLeft(r, lineWidth) == -2 * (r.width * PixelsPerUnit)

\* _updateLocalData: a line's startX, by horizontal alignment.
StartX(r, lineWidth) ==
  CASE r.horizontalAlignment = "Left"   -> -2 * (r.width * PixelsPerUnit)
    [] r.horizontalAlignment = "Center" -> -2 * lineWidth
    [] r.horizontalAlignment = "Right"  -> 2 * (r.width * PixelsPerUnit) - 4 * lineWidth

\* _updateLocalData, the body of the loop over a line's characters for a
\* visible glyph: the record at renderDataCount is reused when there is one
\* and taken from the pool otherwise, its quad is set, and the extrema are
\* widened on the first and last line and the first and last character.
PlaceGlyph(st, char, info, startY, i, lastLineIndex, j, m) ==
  LET fromPool == st.count >= Len(st.datas)
      got      == PoolGet(st.pool)
      record   == IF fromPool THEN got.record ELSE st.datas[st.count + 1]
      left     == st.startX
      right    == st.startX + 4 * info.w
      top      == startY + 4 * info.ascent
      bottom   == startY - 4 * info.descent + 4
      placed   == [record EXCEPT !.texture = info.index,
                                 !.char = char,
                                 !.localPositions = <<left, top, right, bottom>>]
  IN  [st EXCEPT !.datas = IF fromPool THEN Append(@, placed)
                           ELSE [@ EXCEPT ![st.count + 1] = placed],
                 !.pool  = IF fromPool THEN got.pool ELSE @,
                 !.gets  = IF fromPool THEN @ + 1 ELSE @,
                 !.count = @ + 1,
                 !.maxY  = IF i = 0 THEN Max2(@, top) ELSE @,
                 !.minY  = IF i = lastLineIndex THEN Min2(@, bottom) ELSE @,
                 !.minX  = IF j = 0 THEN Min2(@, left) ELSE @,
                 !.maxX  = IF j = m THEN Max2(@, right) ELSE @]

\* _updateLocalData, the loop over the characters of line i from character j.
RECURSIVE LayoutLine(_, _, _, _, _, _)
LayoutLine(st, line, startY, i, lastLineIndex, j) ==
  IF j > Len(line) - 1 THEN st
  ELSE LET char == line[j + 1]
           info == CharInfo(char)
           st1  == IF info.h > 0
                   THEN PlaceGlyph(st, char, info, startY, i, lastLineIndex, j, Len(line) - 1)
                   ELSE st
       IN  LayoutLine([st1 EXCEPT !.startX = @ + 4 * info.xAdvance],
                      line, startY, i, lastLineIndex, j + 1)

\* _updateLocalData, the loop over the lines from line i.
RECURSIVE LayoutLines(_, _, _, _, _)
LayoutLines(st, r, textMetrics, startY, i) ==
  IF i >= Len(textMetrics.lines) THEN st
  ELSE LayoutLines(
         LayoutLine([st EXCEPT !.startX = StartX(r, textMetrics.lineWidths[i + 1])],
                    textMetrics.lines[i + 1], startY, i, Len(textMetrics.lines) - 1, 0),
         r, textMetrics, startY - 4 * textMetrics.lineHeight, i + 1)

\* Array.prototype.sort by texture.instanceId: stable, and the atlas pages'
\* textures were created in page order.
RECURSIVE SortByTexture(_, _)
SortByTexture(datas, page) ==
  IF page > CharFontLastIndex THEN <<>>
  ELSE SelectSeq(datas, LAMBDA d : d.texture = page) \o SortByTexture(datas, page + 1)

\* _updateLocalData, after the loops: the bounds are set, the records beyond
\* renderDataCount go back to the pool and the rest are sorted by texture.
FinishLocalData(r, st) ==
  LET kept   == SubSeq(st.datas, 1, st.count)
      excess == SubSeq(st.datas, st.count + 1, Len(st.datas))
  IN  [renderer |-> [r EXCEPT !.localBounds = [min |-> <<st.minX, st.minY, 0>>,
                                               max |-> <<st.maxX, st.maxY, 0>>],
                              !.charRenderDatas =
                                IF CharFontLastIndex > 0 THEN SortByTexture(kept, 0)
                                ELSE kept],
       pool     |-> PoolPutAll(st.pool, excess),
       charGets |-> st.gets,
       charPuts |-> Len(excess)]

\* _updateLocalData().
_updateLocalData(r, pool) ==
  LET textMetrics == IF r.enableWrapping THEN measureTextWithWrap(r)
                     ELSE measureTextWithoutWrap(r)
      st0 == [datas |-> r.charRenderDatas, count |-> 0, pool |-> pool, gets |-> 0,
              minX |-> MAX_SAFE_INTEGER, minY |-> MAX_SAFE_INTEGER,
              maxX |-> MIN_SAFE_INTEGER, maxY |-> MIN_SAFE_INTEGER,
              startX |-> 0]
  IN  FinishLocalData(r, LayoutLines(st0, r, textMetrics, StartY(r, textMetrics), 0))

\* _updatePosition(): every record's four world positions are computed from
\* the entity's world matrix and the record's local quad.
_updatePosition(r) ==
  LET datas == r.charRenderDatas
  IN  [r EXCEPT !.charRenderDatas =
         [k \in 1..Len(datas) |->
            [datas[k] EXCEPT !.positions =
               [pose |-> r.pose, local |-> datas[k].localPositions]]]]

\* _resetSubFont(): Font._getSubFont keeps one sub font per size and style.
_resetSubFont(r) == [r EXCEPT !.subFont = <<r.font, r.fontSize, r.fontStyle>>]

\* _updateStencilState(): the stencil state is a function of maskInteraction.
_updateStencilState(r) == [r EXCEPT !.stencilFor = r.maskInteraction]

\* _render, the test it returns early on.
RenderShortCircuits(r) ==
  \/ r.text = <<>>
  \/ r.enableWrapping /\ r.width <= 0
  \/ r.overflowMode = "Truncate" /\ r.height <= 0

\* _render, the stage of the MaskInteraction flag.
MaskInteractionStage(r) ==
  IF _isContainDirtyFlag(r, DirtyFlag.MaskInteraction)
  THEN _setDirtyFlagFalse(_updateStencilState(r), DirtyFlag.MaskInteraction)
  ELSE r

\* _render, the stage of the SubFont flag.
SubFontStage(r) ==
  IF _isContainDirtyFlag(r, DirtyFlag.SubFont)
  THEN _setDirtyFlagFalse(_resetSubFont(r), DirtyFlag.SubFont)
  ELSE r

\* _render, the stage of the LocalPositionBounds flag: the renderer and the
\* pool after it, and the records taken from and returned to the pool.
LocalPositionBoundsStage(r, pool) ==
  IF _isContainDirtyFlag(r, DirtyFlag.LocalPositionBounds)
  THEN [_updateLocalData(r, pool) EXCEPT
          !.renderer = _setDirtyFlagFalse(@, DirtyFlag.LocalPositionBounds)]
  ELSE [renderer |-> r, pool |-> pool, charGets |-> 0, charPuts |-> 0]

\* _render, the stage of the WorldPosition flag.
WorldPositionStage(r) ==
  IF _isContainDirtyFlag(r, DirtyFlag.WorldPosition)
  THEN _setDirtyFlagFalse(_updatePosition(r), DirtyFlag.WorldPosition)
  ELSE r

\* The stages a _render call runs on renderer r, in order.
StagesRun(r) ==
  (IF _isContainDirtyFlag(r, DirtyFlag.MaskInteraction) THEN <<"_updateStencilState">> ELSE <<>>)
  \o (IF _isContainDirtyFlag(r, DirtyFlag.SubFont) THEN <<"_resetSubFont">> ELSE <<>>)
  \o (IF _isContainDirtyFlag(r, DirtyFlag.LocalPositionBounds) THEN <<"_updateLocalData">> ELSE <<>>)
  \o (IF _isContainDirtyFlag(r, DirtyFlag.WorldPosition) THEN <<"_updatePosition">> ELSE <<>>)

\* _render, the sprite element set from a record.
SpriteElementOf(data) ==
  [component |-> "textRenderer", record |-> data.id, renderData |-> data.positions,
   texture |-> data.texture]

\* _render after the stages: one text element from the text element pool and
\* one sprite element per record from the sprite element pool.
TextElementOf(r) ==
  [component    |-> "textRenderer",
   charElements |-> [k \in 1..Len(r.charRenderDatas) |->
                       SpriteElementOf(r.charRenderDatas[k])]]

\* _render with no element built per record.
EmitTextElementEmpty(r, local, stages) ==
  [renderer |-> r,
   pool     |-> local.pool,
   log      |-> [stages     |-> stages,
                 charGets   |-> local.charGets,
                 charPuts   |-> local.charPuts,
                 spriteGets |-> 0,
                 textGets   |-> 1,
                 pushed     |-> <<[component |-> "textRenderer", charElements |-> <<>>]>>]]

\* _render from the text element on: the element is filled and pushed.
EmitTextElement(r, local, stages) ==
  [renderer |-> r,
   pool     |-> local.pool,
   log      |-> [stages     |-> stages,
                 charGets   |-> local.charGets,
                 charPuts   |-> local.charPuts,
                 spriteGets |-> Len(r.charRenderDatas),
                 textGets   |-> 1,
                 pushed     |-> <<TextElementOf(r)>>]]

\* _render with the early return left out.
_renderWithoutShortCircuit(r, pool) ==
  LET local == LocalPositionBoundsStage(SubFontStage(MaskInteractionStage(r)), pool)
  IN  EmitTextElement(WorldPositionStage(local.renderer), local, StagesRun(r))

\* _render(context): the renderer, the record pool and the log after it.
_render(r, pool) ==
  IF RenderShortCircuits(r)
  THEN [renderer |-> r, pool |-> pool, log |-> NoTextLog]
  ELSE LET local == LocalPositionBoundsStage(SubFontStage(MaskInteractionStage(r)), pool)
       IN  EmitTextElement(WorldPositionStage(local.renderer), local, StagesRun(r))

\* _onDestroy() with the records left in _charRenderDatas.
TextRenderer_onDestroyKeepsRecords(r, pool) ==
  [renderer |-> [r EXCEPT !.font = Null, !.subFont = <<>>, !.destroyed = TRUE],
   pool     |-> PoolPutAll(pool, r.charRenderDatas),
   log      |-> [NoTextLog EXCEPT !.charPuts = Len(r.charRenderDatas)]]

\* _onDestroy(): every record goes back to the pool, the list is emptied,
\* the font and the sub font are let go.
TextRenderer_onDestroy(r, pool) ==
  [renderer |-> [r EXCEPT !.charRenderDatas = <<>>, !.font = Null, !.subFont = <<>>,
                          !.destroyed = TRUE],
   pool     |-> PoolPutAll(pool, r.charRenderDatas),
   log      |-> [NoTextLog EXCEPT !.charPuts = Len(r.charRenderDatas)]]

\* _updateBounds(worldBounds): the local bounds under the world matrix.
_updateBounds(r) == [r EXCEPT !.bounds = [pose |-> r.pose, local |-> r.localBounds]]

\* The stages the bounds getter runs on r, in order.
BoundsStagesRun(r) ==
  (IF _isContainDirtyFlag(r, DirtyFlag.SubFont) THEN <<"_resetSubFont">> ELSE <<>>)
  \o (IF _isContainDirtyFlag(r, DirtyFlag.LocalPositionBounds) THEN <<"_updateLocalData">> ELSE <<>>)
  \o (IF _isContainDirtyFlag(r, DirtyFlag.WorldPosition) THEN <<"_updatePosition">> ELSE <<>>)
  \o (IF _isContainDirtyFlag(r, DirtyFlag.WorldBounds) THEN <<"_updateBounds">> ELSE <<>>)

\* The bounds getter after _updateLocalData: _updatePosition, _updateBounds,
\* then the four flags of DirtyFlag.Font are cleared together.
FinishBounds(local, stages) ==
  LET r2 == local.renderer
      r3 == IF _isContainDirtyFlag(r2, DirtyFlag.WorldPosition) THEN _updatePosition(r2) ELSE r2
      r4 == IF _isContainDirtyFlag(r3, DirtyFlag.WorldBounds) THEN _updateBounds(r3) ELSE r3
  IN  [renderer |-> _setDirtyFlagFalse(r4, DirtyFlag.Font),
       pool     |-> local.pool,
       log      |-> [NoTextLog EXCEPT !.stages = stages,
                                      !.charGets = local.charGets,
                                      !.charPuts = local.charPuts]]

\* get bounds
bounds(r, pool) ==
  LET r1 == IF _isContainDirtyFlag(r, DirtyFlag.SubFont) THEN _resetSubFont(r) ELSE r
  IN  FinishBounds(IF _isContainDirtyFlag(r1, DirtyFlag.LocalPositionBounds)
                   THEN _updateLocalData(r1, pool)
                   ELSE [renderer |-> r1, pool |-> pool, charGets |-> 0, charPuts |-> 0],
                   BoundsStagesRun(r))

\* The renderer, the record pool and the log before any operation.
\* constructor: this._font = engine._textDefaultFont; this._font._addRefCount(1)
InitText ==
  /\ textRenderer = NewTextRenderer
  /\ charPool = NewCharRenderDataPool
  /\ textLog = NoTextLog
  /\ otherRenderer = NewTextRenderer
  /\ fontRefCount = _addRefCount(_addRefCount([f \in TextFonts |->
                                                  [refCount |-> 0, destroyed |-> FALSE]],
                                               NewTextRenderer.font, 1),
                                  NewTextRenderer.font, 1)

\* ---------------------------------------------------------------- font data
\* FontAtlas: how much of a page's texture a glyph bitmap takes, in units in
\* which a page holds AtlasCapacity.  The largest glyph is larger than a page.
AtlasCapacity == 2

GlyphSizes == {1, 2, 3}

\* The bitmaps uploaded to the sub fonts of the registry's fonts.
UploadSizes == {2}

\* Characters whose glyphs are uploaded and looked up.
Chars == {"A", "B"}

\* new FontAtlas(engine) with its texture: nothing packed, no glyph known.
NewFontAtlas == [used |-> 0, charInfoMap |-> {}, destroyed |-> FALSE]

\* FontAtlas.uploadCharTexture(charInfo): whether the bitmap fits the page.
AtlasAccepts(fontAtlas, size) == fontAtlas.used + size <= AtlasCapacity

\* FontAtlas.uploadCharTexture(charInfo): the page after the call.
uploadCharTexture(fontAtlas, size) ==
  IF AtlasAccepts(fontAtlas, size) THEN [fontAtlas EXCEPT !.used = @ + size]
  ELSE fontAtlas

\* FontAtlas.addCharInfo(char, charInfo): the page's map from characters to
\* glyph records, held as a set of records with one record per character.
addCharInfo(fontAtlas, char, charInfo) ==
  [fontAtlas EXCEPT !.charInfoMap =
     {c \in @ : c.char # char} \cup {[char |-> char, info |-> charInfo]}]

\* The null a glyph lookup returns for an unknown character.
NoCharInfo == [char |-> "", index |-> -1]

\* FontAtlas.getCharInfo(char).
getCharInfo(fontAtlas, char) ==
  IF \E c \in fontAtlas.charInfoMap : c.char = char
  THEN (CHOOSE c \in fontAtlas.charInfoMap : c.char = char).info
  ELSE NoCharInfo

\* new SubFont(engine).
NewSubFont == [fontAtlases |-> <<>>, lastIndex |-> -1]

\* SubFont._createFontAtlas().
_createFontAtlas(sf) == [sf EXCEPT !.fontAtlases = Append(@, NewFontAtlas)]

\* _uploadCharTexture, the step on a missing first page.
FirstPage(sf) ==
  IF sf.lastIndex = -1
  THEN [_createFontAtlas(sf) EXCEPT !.lastIndex = @ + 1]
  ELSE sf

\* _uploadCharTexture: fontAtlases[lastIndex] is undefined, which the call
\* on it turns into a TypeError.
UploadThrows(sf) ==
  FirstPage(sf).lastIndex + 1 > Len(FirstPage(sf).fontAtlases)

\* _uploadCharTexture: the cursor page rejects the bitmap.
UploadRejected(sf, size) ==
  /\ ~UploadThrows(sf)
  /\ ~AtlasAccepts(FirstPage(sf).fontAtlases[FirstPage(sf).lastIndex + 1], size)

\* _uploadCharTexture with a rejected bitmap left on the full page: no page
\* is created.
UploadOnCursorPageOnly(s1, size) ==
  [s1 EXCEPT !.fontAtlases[s1.lastIndex + 1] = uploadCharTexture(@, size)]

\* _uploadCharTexture after the first page exists: the upload to the cursor
\* page and, when it is rejected, a new page, the upload to it and the cursor
\* moved on.
UploadOnCursorPage(s1, size) ==
  IF AtlasAccepts(s1.fontAtlases[s1.lastIndex + 1], size)
  THEN [s1 EXCEPT !.fontAtlases[s1.lastIndex + 1] = uploadCharTexture(@, size)]
  ELSE [s1 EXCEPT !.fontAtlases = Append(@, uploadCharTexture(NewFontAtlas, size)),
                  !.lastIndex = @ + 1]

\* The 0-based pages _uploadCharTexture calls fontAtlas.uploadCharTexture on,
\* in order: the cursor page, then the page created when it rejects.
UploadAttempts(sf, size) ==
  IF UploadThrows(sf) THEN <<>>
  ELSE IF UploadRejected(sf, size)
  THEN <<FirstPage(sf).lastIndex, FirstPage(sf).lastIndex + 1>>
  ELSE <<FirstPage(sf).lastIndex>>

\* The 0-based page whose fontAtlas.uploadCharTexture returned true in
\* _uploadCharTexture, -1 when none did: the result of the call on the new
\* page is not looked at.
UploadedTo(sf, size) ==
  IF UploadThrows(sf) THEN -1
  ELSE IF ~UploadRejected(sf, size) THEN FirstPage(sf).lastIndex
  ELSE IF AtlasAccepts(NewFontAtlas, size) THEN FirstPage(sf).lastIndex + 1
  ELSE -1

\* The least of a non-empty set of numbers.
Least(S) == CHOOSE n \in S : \A m \in S : n <= m

\* _uploadCharTexture writing to the first page that has room for the bitmap.
_uploadCharTextureFirstFit(sf, size) ==
  IF UploadThrows(sf) THEN sf
  ELSE IF \E i \in 1..Len(FirstPage(sf).fontAtlases) :
            AtlasAccepts(FirstPage(sf).fontAtlases[i], size)
  THEN [FirstPage(sf) EXCEPT
          !.fontAtlases[Least({i \in 1..Len(FirstPage(sf).fontAtlases) :
                                 AtlasAccepts(FirstPage(sf).fontAtlases[i], size)})]
             = uploadCharTexture(@, size)]
  ELSE UploadOnCursorPage(FirstPage(sf), size)

\* SubFont._uploadCharTexture(charInfo); a call that throws changes nothing.
_uploadCharTexture(sf, size) ==
  IF UploadThrows(sf) THEN sf
  ELSE UploadOnCursorPage(FirstPage(sf), size)

\* _addCharInfo: fontAtlases[lastIndex] is undefined.
AddThrows(sf) == sf.lastIndex < 0 \/ sf.lastIndex + 1 > Len(sf.fontAtlases)

\* SubFont._addCharInfo(char, charInfo): the glyph is recorded on the cursor
\* page with its index set to the cursor.
_addCharInfo(sf, char) ==
  IF AddThrows(sf) THEN sf
  ELSE [sf EXCEPT !.fontAtlases[sf.lastIndex + 1] =
          addCharInfo(@, char, [char |-> char, index |-> sf.lastIndex])]

\* _getCharInfo, the scan of the pages from page i: the first page that knows
\* the character answers.
RECURSIVE GetCharInfoFrom(_, _, _)
GetCharInfoFrom(sf, char, i) ==
  IF i >= Len(sf.fontAtlases) THEN NoCharInfo
  ELSE IF getCharInfo(sf.fontAtlases[i + 1], char) # NoCharInfo
       THEN getCharInfo(sf.fontAtlases[i + 1], char)
       ELSE GetCharInfoFrom(sf, char, i + 1)

\* SubFont._getCharInfo(char).
_getCharInfo(sf, char) == GetCharInfoFrom(sf, char, 0)

\* SubFont._getTextureByIndex(index): the texture of the page, named by the
\* page's index, -1 for the null of a page that does not exist.
_getTextureByIndex(sf, index) ==
  IF index >= 0 /\ index < Len(sf.fontAtlases) THEN index ELSE -1

\* SubFont.destroy(): the pages are destroyed and the list is emptied; the
\* cursor is left as it is.
SubFontDestroy(sf) == [sf EXCEPT !.fontAtlases = <<>>]

\* Font: the engines and the names createFromOS is called with.
Engines == {"engine1", "engine2"}

FontNames == {"", "Arial", "Times"}

\* A font is named by its position in the list of the fonts constructed so
\* far; NoFont is the missing entry of Font._fontMap and the null createFromOS
\* returns.
NoFont == 0

\* The sizes and styles sub fonts are asked for.
FontSizes == {24, 32}

FontStyles == {"None"}

\* The keys of Font._subFontMap: `${fontSize}-${fontStyle}`.
SubFontKeys == FontSizes \X FontStyles

\* new Font(engine, name).  _subFontMap is the set of its keys, and subFonts
\* holds the SubFont object of each key: the one the map refers to once the
\* key is in it, and the one the font is going to construct before that.
NewFont(eng, name) ==
  [engine |-> eng, name |-> name, subFontMap |-> {},
   subFonts |-> [key \in SubFontKeys |-> NewSubFont], destroyed |-> FALSE]

\* Font.createFromOS(engine, name): the font returned, the registry and the
\* fonts constructed so far after the call.
createFromOS(eng, name, map, all) ==
  IF name # ""
  THEN IF map[name] # NoFont
       THEN [result |-> map[name], fontMap |-> map, fonts |-> all]
       ELSE [result  |-> Len(all) + 1,
             fontMap |-> [map EXCEPT ![name] = Len(all) + 1],
             fonts   |-> Append(all, NewFont(eng, name))]
  ELSE [result |-> NoFont, fontMap |-> map, fonts |-> all]

\* Font._getSubFont(fontSize, fontStyle): the key's sub font, constructed and
\* registered when the map has none.
_getSubFont(font, fontSize, fontStyle) ==
  [font EXCEPT !.subFontMap = @ \cup {<<fontSize, fontStyle>>}]

\* The atlas pages Font._onDestroy destroys: every page of every sub font in
\* the font's map, named by the sub font's key and the page's index.
PagesOf(font) ==
  UNION {{<<key, i>> : i \in 0..(Len(font.subFonts[key].fontAtlases) - 1)} :
           key \in font.subFontMap}

\* Font._onDestroy() leaving the registry as it is.
Font_onDestroyKeepsName(f, map, all) ==
  [fontMap |-> map,
   fonts   |-> [all EXCEPT ![f] =
                  [@ EXCEPT !.subFonts = [key \in SubFontKeys |->
                                            IF key \in all[f].subFontMap
                                            THEN SubFontDestroy(@[key]) ELSE @[key]],
                            !.subFontMap = {},
                            !.destroyed = TRUE]]]

\* Font._onDestroy() of font f: every sub font in the map is destroyed, the
\* map becomes null and the font's name is deleted from Font._fontMap.
Font_onDestroy(f, map, all) ==
  [fontMap |-> [map EXCEPT ![all[f].name] = NoFont],
   fonts   |-> [all EXCEPT ![f] =
                  [@ EXCEPT !.subFonts = [key \in SubFontKeys |->
                                            IF key \in all[f].subFontMap
                                            THEN SubFontDestroy(@[key]) ELSE @[key]],
                            !.subFontMap = {},
                            !.destroyed = TRUE]]]

\* No call on a font or sub font yet.
NoFontLog == [op |-> "none"]

InitFonts ==
  /\ subFont = NewSubFont
  /\ fontMap = [name \in FontNames |-> NoFont]
  /\ fonts = <<>>
  /\ fontLog = NoFontLog

\* ------------------------------------------------------------- glTF loading
\* The most entries gltf.buffers has.
MaxBuffers == 3

\* The URLs parse is given, as their characters: "m.gltf", "m.glb" and
\* "glb.json".
Urls ==
  {<<"m", ".", "g", "l", "t", "f">>,
   <<"m", ".", "g", "l", "b">>,
   <<"g", "l", "b", ".", "j", "s", "o", "n">>}

\* String.prototype.lastIndexOf(c): the last 0-based index of c, or -1.
LastIndexOf(s, c) ==
  LET at == {k \in 1..Len(s) : s[k] = c}
  IN  IF at = {} THEN -1 ELSE (CHOOSE k \in at : \A j \in at : j <= k) - 1

\* String.prototype.substring(start, end), for 0 <= start <= end.
Substring(s, start, end) ==
  SubSeq(s, start + 1, IF end < Len(s) THEN end ELSE Len(s))

\* _isGLB(url): the three characters after the last dot are "glb".
_isGLB(url) ==
  LET index == LastIndexOf(url, ".")
  IN  Substring(url, index + 1, index + 4) = <<"g", "l", "b">>

\* The uris the buffers of a glTF document name.
BufferUris == {"b1", "b2"}

RECURSIVE UriLists(_)
UriLists(n) ==
  IF n = 0 THEN {<<>>}
  ELSE LET shorter == UriLists(n - 1)
       IN  shorter \cup {Append(s, [uri |-> u]) : s \in {t \in shorter : Len(t) = n - 1},
                                                  u \in BufferUris}

\* The glTF documents a server answers with: one without a buffers
\* property, and one for every list of up to MaxBuffers buffers.
GltfDocs ==
  {[hasBuffers |-> FALSE, buffers |-> <<>>]}
  \cup {[hasBuffers |-> TRUE, buffers |-> b] : b \in UriLists(MaxBuffers)}

\* GLTFUtil.parseRelativeUrl(baseUrl, relativeUrl): the address a uri of the
\* document at baseUrl stands for.
parseRelativeUrl(baseUrl, relativeUrl) == [base |-> baseUrl, uri |-> relativeUrl]

\* request(url, config): a pending request; order is its place among the
\* completed requests, 0 while it is pending.
request(target, type) ==
  [target |-> target, type |-> type, state |-> "pending", response |-> <<>>, order |-> 0]

\* What the server holds at an address.
ArrayBufferOf(target) == <<[bytes |-> target]>>

\* gltf.buffers.map(buffer => request(parseRelativeUrl(url, buffer.uri),
\*                                    { type: "arraybuffer" }))
BufferRequests(url, gltf) ==
  [i \in 1..Len(gltf.buffers) |->
     request(parseRelativeUrl(url, gltf.buffers[i].uri), "arraybuffer")]

\* The requests that have completed.
Completed(reqs) == {i \in 1..Len(reqs) : reqs[i].state # "pending"}

\* Request i of reqs completes with state and response.
Complete(reqs, i, state, response) ==
  [reqs EXCEPT ![i] = [@ EXCEPT !.state = state, !.response = response,
                                !.order = Cardinality(Completed(reqs)) + 1]]

\* Promise.all handing the responses on in the order the requests completed.
PromiseAllInCompletionOrder(reqs) ==
  [k \in 1..Len(reqs) |->
     LET i == CHOOSE j \in 1..Len(reqs) :
                Cardinality({q \in 1..Len(reqs) : reqs[q].order <= reqs[j].order}) = k
     IN  reqs[i].response[1]]

\* Promise.all(requests).then(buffers => ...): the value of the fulfilled
\* promise holds the response of request i at index i.
PromiseAll(reqs) == [i \in 1..Len(reqs) |-> reqs[i].response[1]]

\* The buffer requests among the requests of a parse: all but the first.
BufferRequestsOf(reqs) == SubSeq(reqs, 2, Len(reqs))

\* An entry of the log of a parse.
LoadEvent(ev, index) == [ev |-> ev, index |-> index]

InitLoader ==
  /\ glTFResource = [url |-> <<>>, gltf |-> <<>>, buffers |-> <<>>]
  /\ requests = <<>>
  /\ parsePromise = "none"
  /\ loadLog = <<>>

\* ------------------------------------------------------------ initial state
\* The layer every renderer of the sort specification lives on.
DefaultLayer == 1

\* A render element: its renderer component, whether it carries a mesh (a
\* sprite or text element carries none), its material and the shader pass
\* taken from the material when the element was filled in.
Element(id, component, mesh, material) ==
  [id |-> id, component |-> component, mesh |-> mesh, material |-> material,
   shaderPass |-> MaterialPass(material)]

RendererSet ==
  [priority : Priorities, distance : Distances, layer : {DefaultLayer}]

RECURSIVE SeqsUpTo(_, _)
SeqsUpTo(S, n) ==
  IF n = 0 THEN {<<>>}
  ELSE LET shorter == SeqsUpTo(S, n - 1)
       IN  shorter \cup {Append(s, x) : s \in {t \in shorter : Len(t) = n - 1}, x \in S}

\* The renderers of the render specification: r1 on layer bit 0 and farther
\* from the camera, r2 on layer bit 1 and nearer.
SceneRenderers ==
  <<[priority |-> 0, distance |-> 1, layer |-> 1],
    [priority |-> 0, distance |-> 0, layer |-> 2]>>

\* What the renderers of the render specification submit.
SceneElements ==
  {[component |-> 1, mesh |-> TRUE, material |-> "m1"],
   [component |-> 2, mesh |-> TRUE, material |-> "m2"],
   [component |-> 1, mesh |-> TRUE, material |-> "m3"],
   [component |-> 1, mesh |-> FALSE, material |-> "m1"]}

CanvasSizes == {[width |-> 4, height |-> 2], [width |-> 2, height |-> 2]}

InitQueue ==
  /\ items = <<>>
  /\ lastSort = "none"
  /\ sortCount = 0
  /\ before = <<>>
  /\ sortLog = <<>>

\* No render call yet.
NoCall ==
  [camera |-> Null, scene |-> Null, renderCount |-> 0, replaceMaterial |-> Null,
   mask |-> 0, customShader |-> Null,
   materials |-> [m \in MaterialIds |-> [destroyed |-> FALSE]]]

InitGpu ==
  /\ materials = [m \in MaterialIds |-> [destroyed |-> FALSE]]
  /\ programs = [k \in ProgramKeys |-> InitialStamps]
  /\ currentBind = NoProgram
  /\ pending = <<>>
  /\ ops = <<>>

\* The engine before the first frame, on a backend that is WebGL2 or not;
\* mipRequested, mipLevel and errorLogged are those of the last Camera.render.
NewEngine(isWebGL2) ==
  [renderCount |-> 0, isWebGL2 |-> isWebGL2, contextCamera |-> Null,
   mipRequested |-> 0, mipLevel |-> 0, errorLogged |-> FALSE]

InitEngine == engine = NewEngine(FALSE)

\* The flags the constructor registers on the transform.
WorldChangeFlags == {"isViewMatrixDirty", "isInvViewProjDirty", "frustumViewChangeFlag"}

InitCamera ==
  /\ camera = NewCamera
  /\ canvas = [width |-> 4, height |-> 2]
  /\ transform = [pose |-> 0, flags |-> WorldChangeFlags]

InitSort ==
  /\ renderers \in (SeqsUpTo(RendererSet, MaxRenderers) \ {<<>>})
  /\ InitQueue /\ InitGpu /\ InitEngine /\ InitCamera /\ InitText /\ InitFonts /\ InitLoader
  /\ lastOp = "none"
  /\ calls = 0
  /\ call = NoCall
  /\ steps = 0

InitRender ==
  /\ renderers = SceneRenderers
  /\ InitQueue /\ InitGpu /\ InitEngine /\ InitCamera /\ InitText /\ InitFonts /\ InitLoader
  /\ lastOp = "none"
  /\ calls = 0
  /\ call = NoCall
  /\ steps = 0

\* -------------------------------------------------------- queue operations
\* pushPrimitive(element): the frame's submissions walk the renderer list
\* cyclically, each element the next renderer's; ids are submission order.
PushPrimitive ==
  /\ Len(items) < MaxLen
  /\ lastSort = "none"
  /\ items' = Append(items, Element(Len(items), (Len(items) % Len(renderers)) + 1,
                                    TRUE, "m1"))
  /\ lastOp' = "pushPrimitive"
  /\ UNCHANGED <<renderers, lastSort, sortCount, before, sortLog>>
  /\ UNCHANGED <<gpuVars, engine, cameraVars, calls, call, steps,
                 textVars, fontVars, loaderVars>>

\* pushPrimitive(element) with an element of the scene of the render
\* specification.
PushSceneElement ==
  /\ Len(items) < MaxItems
  /\ calls = 0
  /\ \E e \in SceneElements :
       items' = Append(items, Element(Len(items), e.component, e.mesh, e.material))
  /\ lastOp' = "pushPrimitive"
  /\ UNCHANGED <<renderers, lastSort, sortCount, before, sortLog>>
  /\ UNCHANGED <<gpuVars, engine, cameraVars, calls, call, steps,
                 textVars, fontVars, loaderVars>>

Sort(cmp) ==
  \E r \in {sort(renderers, cmp, items)} :
      /\ sortCount < MaxSorts
      /\ sortCount' = sortCount + 1
      /\ items' = r.a
      /\ sortLog' = r.log
      /\ before' = items
      /\ lastSort' = cmp
      /\ lastOp' = "sort"
      /\ UNCHANGED renderers
      /\ UNCHANGED <<gpuVars, engine, cameraVars, calls, call, steps,
                     textVars, fontVars, loaderVars>>

\* clear(): this.items.length = 0; this._spriteBatcher.clear()
Clear ==
  /\ items # <<>>
  /\ items' = <<>>
  /\ lastSort' = "none"
  /\ sortCount' = 0
  /\ before' = <<>>
  /\ sortLog' = <<>>
  /\ pending' = <<>>
  /\ lastOp' = "clear"
  /\ UNCHANGED <<renderers, materials, programs, currentBind, ops>>
  /\ UNCHANGED <<engine, cameraVars, calls, call, steps,
                 textVars, fontVars, loaderVars>>

SortNearToFar == Sort("NearToFar")

SortFarToNear == Sort("FarToNear")

\* The materials the scene may destroy.
Destroyable == {"m1", "m2"}

\* material.destroy()
DestroyMaterial ==
  \E m \in Destroyable :
    /\ ~materials[m].destroyed
    /\ materials' = [materials EXCEPT ![m].destroyed = TRUE]
    /\ lastOp' = "material destroy"
    /\ UNCHANGED <<programs, currentBind, pending, ops>>
    /\ UNCHANGED <<queueVars, engine, cameraVars, calls, call, steps,
                   textVars, fontVars, loaderVars>>

Gpu == [programs |-> programs, currentBind |-> currentBind, pending |-> pending,
        ops |-> <<>>]

\* The mask and override combinations of the direct render calls.
RenderArguments ==
  {[mask |-> 1, replaceMaterial |-> Null, customShader |-> Null],
   [mask |-> Everything, replaceMaterial |-> Null, customShader |-> Null],
   [mask |-> Everything, replaceMaterial |-> "m4", customShader |-> Null],
   [mask |-> Everything, replaceMaterial |-> Null, customShader |-> "p2"]}

Cameras == {"c1"}

\* camera.scene: cameras c1 and c2 look at scene s1, camera c3 at scene s2.
SceneOf(c) == IF c = "c3" THEN "s2" ELSE "s1"

\* RenderQueue.render(camera, replaceMaterial, mask, customShader) called on
\* the queue as it stands, with a camera of cameras and arguments of
\* arguments.
QueueRenderOf(cameras, arguments) ==
  \E c \in cameras, o \in arguments :
    \E ctx \in {[camera |-> c, scene |-> SceneOf(c), renderCount |-> engine.renderCount,
                  replaceMaterial |-> o.replaceMaterial, mask |-> o.mask,
                  customShader |-> o.customShader, materials |-> materials]} :
      \E g \in {render(Gpu, items, renderers, ctx)} :
        /\ items # <<>>
        /\ programs' = g.programs
        /\ currentBind' = g.currentBind
        /\ pending' = g.pending
        /\ ops' = g.ops
        /\ lastOp' = "queue render"
        /\ calls < MaxCalls
        /\ calls' = calls + 1
        /\ call' = ctx
        /\ UNCHANGED <<materials, queueVars, engine, cameraVars, steps,
                       textVars, fontVars, loaderVars>>

QueueRender == QueueRenderOf(Cameras, RenderArguments)

\* The cameras and arguments of the render calls of the upload specification:
\* three cameras on two scenes, with and without a custom shader.
UploadCameras == {"c1", "c2", "c3"}

UploadArguments ==
  {[mask |-> Everything, replaceMaterial |-> Null, customShader |-> Null],
   [mask |-> Everything, replaceMaterial |-> Null, customShader |-> "p2"]}

QueueRenderAnyCamera == QueueRenderOf(UploadCameras, UploadArguments)

\* ------------------------------------------------------- camera operations
NearValues == {1, 2}

FarValues == {50}

FovValues == {60}

OrthographicSizes == {5}

Viewports ==
  {[x |-> <<0, 1>>, y |-> <<0, 1>>, z |-> <<1, 2>>, w |-> <<1, 1>>]}

AspectValues == {<<2, 1>>}

ManualMatrices == {[kind |-> "manual"]}

Poses == {0, 1}

MipLevels == {0, 1}

CameraStep(op, cam) ==
  /\ ~camera.destroyed
  /\ steps < MaxSteps
  /\ steps' = steps + 1
  /\ camera' = cam
  /\ lastOp' = op
  /\ UNCHANGED <<canvas, transform, queueVars, gpuVars, engine, calls, call,
                 textVars, fontVars, loaderVars>>

\* set nearClipPlane
SetNearClipPlane ==
  \E value \in NearValues :
    CameraStep("set nearClipPlane", _projMatChange([camera EXCEPT !.nearClipPlane = value]))

\* set farClipPlane
SetFarClipPlane ==
  \E value \in FarValues :
    CameraStep("set farClipPlane", _projMatChange([camera EXCEPT !.farClipPlane = value]))

\* set fieldOfView
SetFieldOfView ==
  \E value \in FovValues :
    CameraStep("set fieldOfView", _projMatChange([camera EXCEPT !.fieldOfView = value]))

\* set aspectRatio
SetAspectRatio ==
  \E value \in AspectValues :
    CameraStep("set aspectRatio", _projMatChange([camera EXCEPT !.customAspectRatio = value]))

\* set viewport: value is copied into the camera's own vector
SetViewport ==
  \E value \in Viewports :
    CameraStep("set viewport", _projMatChange([camera EXCEPT !.viewport = value]))

\* set isOrthographic
SetIsOrthographic ==
  \E value \in BOOLEAN :
    CameraStep("set isOrthographic", _projMatChange([camera EXCEPT !.isOrthographic = value]))

\* set orthographicSize
SetOrthographicSize ==
  \E value \in OrthographicSizes :
    CameraStep("set orthographicSize",
               _projMatChange([camera EXCEPT !.orthographicSize = value]))

\* set projectionMatrix
SetProjectionMatrix ==
  \E value \in ManualMatrices :
    CameraStep("set projectionMatrix",
               _projMatChange([camera EXCEPT !.projectionMatrix = value,
                                             !.isProjMatSetting = TRUE]))

\* resetProjectionMatrix()
ResetProjectionMatrix ==
  CameraStep("resetProjectionMatrix", _projMatChange([camera EXCEPT !.isProjMatSetting = FALSE]))

\* resetAspectRatio()
ResetAspectRatio ==
  CameraStep("resetAspectRatio", _projMatChange([camera EXCEPT !.customAspectRatio = Undefined]))

\* A read of projectionMatrix.
GetProjectionMatrix ==
  CameraStep("get projectionMatrix", projectionMatrix(camera, canvas))

\* viewportToWorldPoint(point, out): of the camera's state it changes what
\* _getInvViewProjMat() changes.
ViewportToWorldPoint ==
  CameraStep("viewportToWorldPoint", _getInvViewProjMat(camera, canvas, transform.pose))

\* The canvas is resized.
ResizeCanvas ==
  /\ canvas' \in CanvasSizes \ {canvas}
  /\ lastOp' = "canvas resize"
  /\ steps < MaxSteps
  /\ steps' = steps + 1
  /\ UNCHANGED <<camera, transform, queueVars, gpuVars, engine, calls, call,
                 textVars, fontVars, loaderVars>>

\* transform's world state changes: every flag registered on it is set.
DispatchWorldChange(cam, flags) ==
  [cam EXCEPT
     !.isViewMatrixDirty = @ \/ "isViewMatrixDirty" \in flags,
     !.isInvViewProjDirty = @ \/ "isInvViewProjDirty" \in flags,
     !.frustumViewChangeFlag = @ \/ "frustumViewChangeFlag" \in flags]

\* The camera entity's transform changes.
TransformChange ==
  /\ steps < MaxSteps
  /\ steps' = steps + 1
  /\ \E p \in Poses \ {transform.pose} : transform' = [transform EXCEPT !.pose = p]
  /\ camera' = DispatchWorldChange(camera, transform.flags)
  /\ lastOp' = "transform change"
  /\ UNCHANGED <<canvas, queueVars, gpuVars, engine, calls, call,
                 textVars, fontVars, loaderVars>>

\* A read of viewMatrix.
GetViewMatrix ==
  CameraStep("get viewMatrix", viewMatrix(camera, transform.pose))

\* enableFrustumCulling is assigned.
SetEnableFrustumCulling ==
  \E value \in BOOLEAN :
    CameraStep("set enableFrustumCulling", [camera EXCEPT !.enableFrustumCulling = value])

\* _onDestroy() without this._frustumViewChangeFlag: the registrations released.
ReleasedFlags == {"isInvViewProjDirty", "isViewMatrixDirty"}

\* _onDestroy(): the pipeline is destroyed, two flags leave the transform's
\* registrations, the shader data loses one reference.
_onDestroy(cam) ==
  [cam EXCEPT !.destroyed = TRUE,
              !.pipelineDestroyed = TRUE,
              !.shaderDataRefCount = @ - 1]

\* The camera is destroyed.
Destroy ==
  /\ ~camera.destroyed
  /\ steps < MaxSteps
  /\ steps' = steps + 1
  /\ camera' = _onDestroy(camera)
  /\ transform' = [transform EXCEPT !.flags = @ \ ReleasedFlags]
  /\ lastOp' = "destroy"
  /\ UNCHANGED <<canvas, queueVars, gpuVars, engine, calls, call,
                 textVars, fontVars, loaderVars>>

\* The elements of a in the order they were submitted.
SubmissionOrder(a) ==
  [k \in 1..Len(a) |-> CHOOSE e \in {a[i] : i \in DOMAIN a} : e.id = k - 1]

\* The pipeline's call of RenderQueue.render on the sorted queue, with the
\* camera's culling mask and no replacement material or custom shader.
PipelineContext(cam, renderCount, mats) ==
  [camera |-> "c1", scene |-> SceneOf("c1"), renderCount |-> renderCount,
   replaceMaterial |-> Null, mask |-> cam.cullingMask,
   customShader |-> Null, materials |-> mats]

PipelineQueueRender(g, submitted, sorted, rs, ctx) ==
  [submitted |-> submitted, sorted |-> sorted, ctx |-> ctx,
   g |-> render([g EXCEPT !.pending = <<>>], sorted.a, rs, ctx)]

PipelineSort(g, submitted, rs, ctx) ==
  PipelineQueueRender(g, submitted, sort(rs, "NearToFar", submitted), rs, ctx)

\* _renderPipeline.render(context, cubeFace, mipLevel): the scene's renderers
\* submit their elements to the cleared queue, the queue is sorted near to
\* far and rendered with the camera's culling mask.
PipelineRender(g, a, rs, cam, renderCount, mats) ==
  PipelineSort(g, SubmissionOrder(a), rs, PipelineContext(cam, renderCount, mats))

\* Camera.render that leaves engine._renderCount as it is.
RenderKeepsCount(mipLevels) ==
  \E mipLevel \in mipLevels :
    \E cam \in {RenderPrepare(camera, canvas, transform.pose)} :
      \E r \in {PipelineRender(Gpu, items, renderers, cam, engine.renderCount, materials)} :
        /\ engine.renderCount < MaxFrames
        /\ ~camera.destroyed
        /\ calls < MaxCalls
        /\ calls' = calls + 1
        /\ call' = r.ctx
        /\ camera' = cam
        /\ lastOp' = "render"
        /\ items' = r.sorted.a
        /\ before' = r.submitted
        /\ sortLog' = r.sorted.log
        /\ lastSort' = "NearToFar"
        /\ sortCount' = 1
        /\ programs' = r.g.programs
        /\ currentBind' = r.g.currentBind
        /\ pending' = r.g.pending
        /\ ops' = r.g.ops
        /\ engine' = [engine EXCEPT
                        !.contextCamera = "c1",
                        !.mipRequested = mipLevel,
                        !.mipLevel = ClampMipLevel(mipLevel, engine.isWebGL2),
                        !.errorLogged = mipLevel > 0 /\ ~engine.isWebGL2]
        /\ UNCHANGED <<renderers, materials, canvas, transform, steps,
                       textVars, fontVars, loaderVars>>

\* Camera.render(cubeFace, mipLevel), mipLevel drawn from mipLevels
Render(mipLevels) ==
  \E mipLevel \in mipLevels :
    \E cam \in {RenderPrepare(camera, canvas, transform.pose)} :
      \E r \in {PipelineRender(Gpu, items, renderers, cam, engine.renderCount, materials)} :
        /\ engine.renderCount < MaxFrames
        /\ ~camera.destroyed
        /\ calls < MaxCalls
        /\ calls' = calls + 1
        /\ call' = r.ctx
        /\ camera' = cam
        /\ lastOp' = "render"
        /\ items' = r.sorted.a
        /\ before' = r.submitted
        /\ sortLog' = r.sorted.log
        /\ lastSort' = "NearToFar"
        /\ sortCount' = 1
        /\ programs' = r.g.programs
        /\ currentBind' = r.g.currentBind
        /\ pending' = r.g.pending
        /\ ops' = r.g.ops
        /\ engine' = [engine EXCEPT
                        !.renderCount = @ + 1,
                        !.contextCamera = "c1",
                        !.mipRequested = mipLevel,
                        !.mipLevel = ClampMipLevel(mipLevel, engine.isWebGL2),
                        !.errorLogged = mipLevel > 0 /\ ~engine.isWebGL2]
        /\ UNCHANGED <<renderers, materials, canvas, transform, steps,
                       textVars, fontVars, loaderVars>>

\* Camera.render() with the default mip level
CameraRenderDefault == Render({0})

\* The engine's frame loop ends the frame: the render calls that follow
\* belong to the next frame.
FrameEnd ==
  /\ lastOp # "frame end"
  /\ lastOp' = "frame end"
  /\ UNCHANGED <<queueVars, gpuVars, engine, cameraVars, calls, call, steps,
                 textVars, fontVars, loaderVars>>

\* Camera.render(cubeFace, mipLevel)
CameraRender == Render(MipLevels)

\* ---------------------------------------------------------- text operations
\* One operation on the text renderer.
TextStep(op, r, pool, log) ==
  /\ steps < MaxSteps
  /\ steps' = steps + 1
  /\ textRenderer' = r
  /\ charPool' = pool
  /\ textLog' = log
  /\ lastOp' = op
  /\ UNCHANGED <<queueVars, gpuVars, engine, cameraVars, calls, call, fontVars, loaderVars,
                 fontRefCount, otherRenderer>>

\* A setter of the renderer: the field is written and the flags of type are
\* set only when the value differs from the field's.
SetAndMark(r, field, value, type) ==
  IF r[field] # value
  THEN _setDirtyFlagTrue([r EXCEPT ![field] = value], type)
  ELSE r

TextWidths == {0, 1, 2}

TextHeights == {0, 1}

HorizontalAlignments == {"Left", "Center", "Right"}

OverflowModes == {"Overflow", "Truncate"}

\* set text
SetText ==
  \E value \in Texts :
    TextStep("set text", SetAndMark(textRenderer, "text", value, DirtyFlag.Position),
             charPool, NoTextLog)

\* The strings that begin or end with a glyph without bitmap, or hold no
\* other glyph.
BlankTexts == {<<"space">>, <<"space", "A">>, <<"A", "space">>}

\* set text, to a string with blanks
SetTextWithBlanks ==
  \E value \in BlankTexts :
    TextStep("set text", SetAndMark(textRenderer, "text", value, DirtyFlag.Position),
             charPool, NoTextLog)

\* set width
SetTextWidth ==
  \E value \in TextWidths :
    TextStep("set width", SetAndMark(textRenderer, "width", value, DirtyFlag.Position),
             charPool, NoTextLog)

\* set height
SetTextHeight ==
  \E value \in TextHeights :
    TextStep("set height", SetAndMark(textRenderer, "height", value, DirtyFlag.Position),
             charPool, NoTextLog)

\* set horizontalAlignment
SetHorizontalAlignment ==
  \E value \in HorizontalAlignments :
    TextStep("set horizontalAlignment",
             SetAndMark(textRenderer, "horizontalAlignment", value, DirtyFlag.Position),
             charPool, NoTextLog)

\* set enableWrapping
SetEnableWrapping ==
  \E value \in BOOLEAN :
    TextStep("set enableWrapping",
             SetAndMark(textRenderer, "enableWrapping", value, DirtyFlag.Position),
             charPool, NoTextLog)

\* set overflowMode
SetOverflowMode ==
  \E value \in OverflowModes :
    TextStep("set overflowMode",
             SetAndMark(textRenderer, "overflowMode", value, DirtyFlag.Position),
             charPool, NoTextLog)

TextFontSizes == {24, 32}

TextFontStyles == {"None", "Bold"}

LineSpacings == {0, 8}

VerticalAlignments == {"Top", "Center"}

MaskInteractions == {"None", "VisibleInsideMask"}

\* set font: the reference moves from the last font to the new one.
SetFont ==
  \E value \in TextFonts :
    /\ steps < MaxSteps
    /\ steps' = steps + 1
    /\ textRenderer' = setFont(textRenderer, fontRefCount, value).renderer
    /\ fontRefCount' = setFont(textRenderer, fontRefCount, value).refs
    /\ textLog' = NoTextLog
    /\ lastOp' = "set font"
    /\ UNCHANGED <<queueVars, gpuVars, engine, cameraVars, calls, call, fontVars, loaderVars,
                   charPool, otherRenderer>>

\* set fontSize
SetFontSize ==
  \E value \in TextFontSizes :
    TextStep("set fontSize", SetAndMark(textRenderer, "fontSize", value, DirtyFlag.Font),
             charPool, NoTextLog)

\* set fontStyle
SetFontStyle ==
  \E value \in TextFontStyles :
    TextStep("set fontStyle", SetAndMark(textRenderer, "fontStyle", value, DirtyFlag.Font),
             charPool, NoTextLog)

\* set lineSpacing
SetLineSpacing ==
  \E value \in LineSpacings :
    TextStep("set lineSpacing",
             SetAndMark(textRenderer, "lineSpacing", value, DirtyFlag.Position),
             charPool, NoTextLog)

\* set verticalAlignment
SetVerticalAlignment ==
  \E value \in VerticalAlignments :
    TextStep("set verticalAlignment",
             SetAndMark(textRenderer, "verticalAlignment", value, DirtyFlag.Position),
             charPool, NoTextLog)

\* set maskInteraction
SetMaskInteraction ==
  \E value \in MaskInteractions :
    TextStep("set maskInteraction",
             SetAndMark(textRenderer, "maskInteraction", value, DirtyFlag.MaskInteraction),
             charPool, NoTextLog)

\* _onTransformChanged(bit), after the entity's transform took a new pose.
TextTransformChanged ==
  \E pose \in Poses :
    TextStep("_onTransformChanged",
             _setDirtyFlagTrue([textRenderer EXCEPT !.pose = pose],
                               DirtyFlag.WorldPosition \cup DirtyFlag.WorldBounds),
             charPool, NoTextLog)

\* TextRenderer._render(context)
TextRender ==
  \E g \in {_render(textRenderer, charPool)} :
    /\ ~textRenderer.destroyed
    /\ TextStep("TextRenderer._render", g.renderer, g.pool, g.log)

\* get bounds
GetBounds ==
  \E g \in {bounds(textRenderer, charPool)} :
    /\ ~textRenderer.destroyed
    /\ TextStep("get bounds", g.renderer, g.pool, g.log)

\* One operation of the pool specification: on the second renderer, or the
\* destruction of the first.
PoolStep(op, r1, r2, pool, log) ==
  /\ steps < MaxPoolSteps
  /\ steps' = steps + 1
  /\ textRenderer' = r1
  /\ otherRenderer' = r2
  /\ charPool' = pool
  /\ textLog' = log
  /\ lastOp' = op
  /\ fontRefCount' = IF r1.destroyed # textRenderer.destroyed
                     THEN ReleaseFont(fontRefCount, textRenderer.font)
                     ELSE IF r2.destroyed # otherRenderer.destroyed
                     THEN ReleaseFont(fontRefCount, otherRenderer.font)
                     ELSE fontRefCount
  /\ UNCHANGED <<queueVars, gpuVars, engine, cameraVars, calls, call, fontVars, loaderVars>>

\* The texts the second renderer is given.
OtherTexts == {<<>>, <<"A">>, <<"A", "B">>}

\* TextRenderer._onDestroy()
TextDestroy ==
  \E g \in {TextRenderer_onDestroy(textRenderer, charPool)} :
    /\ ~textRenderer.destroyed
    /\ PoolStep("TextRenderer._onDestroy", g.renderer, otherRenderer, g.pool, g.log)

\* set text, on the second renderer
OtherSetText ==
  \E value \in OtherTexts :
    PoolStep("other set text", textRenderer,
             SetAndMark(otherRenderer, "text", value, DirtyFlag.Position),
             charPool, NoTextLog)

\* TextRenderer._render(context), on the second renderer
OtherRender ==
  \E g \in {_render(otherRenderer, charPool)} :
    /\ ~otherRenderer.destroyed
    /\ PoolStep("other _render", textRenderer, g.renderer, g.pool, g.log)

\* TextRenderer._onDestroy(), on the second renderer
OtherDestroy ==
  \E g \in {TextRenderer_onDestroy(otherRenderer, charPool)} :
    /\ ~otherRenderer.destroyed
    /\ PoolStep("other _onDestroy", textRenderer, g.renderer, g.pool, g.log)

\* One operation of the reference specification on the two renderers and
\* the fonts' counts.
RefStep(op, r1, r2, refs) ==
  /\ steps < MaxPoolSteps
  /\ steps' = steps + 1
  /\ textRenderer' = r1
  /\ otherRenderer' = r2
  /\ fontRefCount' = refs
  /\ textLog' = NoTextLog
  /\ lastOp' = op
  /\ UNCHANGED <<queueVars, gpuVars, engine, cameraVars, calls, call, fontVars, loaderVars, charPool>>

\* The values the font setter is given: a font or null.
FontValues == TextFonts \cup {Null}

\* set font, with any font or null
AssignFont ==
  \E value \in FontValues :
    \E g \in {setFont(textRenderer, fontRefCount, value)} :
      /\ ~textRenderer.destroyed
      /\ RefStep("set font", g.renderer, otherRenderer, g.refs)

\* set font, on the second renderer
OtherAssignFont ==
  \E value \in FontValues :
    \E g \in {setFont(otherRenderer, fontRefCount, value)} :
      /\ ~otherRenderer.destroyed
      /\ RefStep("other set font", textRenderer, g.renderer, g.refs)

\* new TextRenderer(entity), in the place of the destroyed second renderer:
\* the constructor takes engine._textDefaultFont and counts itself on it.
OtherConstruct ==
  /\ otherRenderer.destroyed
  /\ RefStep("new TextRenderer", textRenderer, NewTextRenderer,
             AcquireFont(fontRefCount, NewTextRenderer.font))

\* RefObject.destroy() of a font nothing references: the font is destroyed
\* and leaves the registry; a font still referenced is kept.
DestroyUnusedFont ==
  \E font \in TextFonts :
    /\ ~fontRefCount[font].destroyed
    /\ fontRefCount[font].refCount = 0
    /\ RefStep("Font.destroy", textRenderer, otherRenderer,
               [fontRefCount EXCEPT ![font].destroyed = TRUE])

\* ---------------------------------------------------------- font operations
\* One call on the sub font or on the font registry.
FontStep(op, log) ==
  /\ steps < MaxFontSteps
  /\ steps' = steps + 1
  /\ fontLog' = log
  /\ lastOp' = op
  /\ UNCHANGED <<queueVars, gpuVars, engine, cameraVars, calls, call, textVars,
                 loaderVars>>

\* SubFont._uploadCharTexture(charInfo)
UploadCharTexture ==
  \E size \in GlyphSizes :
    /\ FontStep("_uploadCharTexture",
                [op |-> "_uploadCharTexture", size |-> size,
                 threw |-> UploadThrows(subFont),
                 attempts |-> UploadAttempts(subFont, size),
                 uploadedTo |-> UploadedTo(subFont, size)])
    /\ subFont' = _uploadCharTexture(subFont, size)
    /\ UNCHANGED <<fontMap, fonts>>

\* SubFont._addCharInfo(char, charInfo)
AddCharInfo ==
  \E char \in Chars :
    /\ FontStep("_addCharInfo",
                [op |-> "_addCharInfo", char |-> char, threw |-> AddThrows(subFont)])
    /\ subFont' = _addCharInfo(subFont, char)
    /\ UNCHANGED <<fontMap, fonts>>

\* SubFont._getCharInfo(char)
GetCharInfo ==
  \E char \in Chars :
    /\ FontStep("_getCharInfo",
                [op |-> "_getCharInfo", char |-> char,
                 result |-> _getCharInfo(subFont, char)])
    /\ UNCHANGED <<subFont, fontMap, fonts>>

\* SubFont.destroy()
DestroySubFont ==
  /\ FontStep("SubFont.destroy", [op |-> "SubFont.destroy"])
  /\ subFont' = SubFontDestroy(subFont)
  /\ UNCHANGED <<fontMap, fonts>>

\* Font.createFromOS(engine, name)
CreateFromOS ==
  \E eng \in Engines, name \in FontNames :
    \E c \in {createFromOS(eng, name, fontMap, fonts)} :
      /\ FontStep("createFromOS",
                  [op |-> "createFromOS", engine |-> eng, name |-> name,
                   result |-> c.result])
      /\ fontMap' = c.fontMap
      /\ fonts' = c.fonts
      /\ UNCHANGED subFont

\* new Font(engine, name): the constructor is public and registers nothing.
ConstructFont ==
  \E eng \in Engines, name \in FontNames :
    /\ FontStep("new Font",
                [op |-> "new Font", engine |-> eng, name |-> name,
                 result |-> Len(fonts) + 1])
    /\ fonts' = Append(fonts, NewFont(eng, name))
    /\ UNCHANGED <<subFont, fontMap>>

\* Font._getSubFont(fontSize, fontStyle) on a font that is not destroyed
GetSubFont ==
  \E f \in 1..Len(fonts), fontSize \in FontSizes, fontStyle \in FontStyles :
    /\ ~fonts[f].destroyed
    /\ FontStep("_getSubFont",
                [op |-> "_getSubFont", font |-> f, result |-> <<f, fontSize, fontStyle>>])
    /\ fonts' = [fonts EXCEPT ![f] = _getSubFont(@, fontSize, fontStyle)]
    /\ UNCHANGED <<subFont, fontMap>>

\* SubFont._uploadCharTexture(charInfo) on a sub font a font handed out
UploadToSubFont ==
  \E f \in 1..Len(fonts), size \in UploadSizes :
    \E key \in fonts[f].subFontMap :
      /\ FontStep("SubFont._uploadCharTexture",
                  [op |-> "SubFont._uploadCharTexture", font |-> f, key |-> key,
                   size |-> size])
      /\ fonts' = [fonts EXCEPT ![f].subFonts[key] = _uploadCharTexture(@, size)]
      /\ UNCHANGED <<subFont, fontMap>>

\* Font.destroy() of a font that is not destroyed yet: _onDestroy()
DestroyFont ==
  \E f \in 1..Len(fonts) :
    \E d \in {Font_onDestroy(f, fontMap, fonts)} :
      /\ ~fonts[f].destroyed
      /\ FontStep("Font._onDestroy",
                  [op |-> "Font._onDestroy", font |-> f, destroyedPages |-> PagesOf(fonts[f])])
      /\ fontMap' = d.fontMap
      /\ fonts' = d.fonts
      /\ UNCHANGED subFont

\* --------------------------------------------------------- loader operations
\* One step of a parse: the call, or the completion of a request together
\* with the promise callbacks it sets off.
LoadStep(op, resource, reqs, promise, events) ==
  /\ glTFResource' = resource
  /\ requests' = reqs
  /\ parsePromise' = promise
  /\ loadLog' = loadLog \o events
  /\ lastOp' = op
  /\ UNCHANGED <<queueVars, gpuVars, engine, cameraVars, calls, call, steps,
                 textVars, fontVars>>

\* BufferParser.parse(context): the document is requested, as an array
\* buffer for a GLB url and as json otherwise.
Parse ==
  \E url \in Urls :
    /\ parsePromise = "none"
    /\ LoadStep("parse", [glTFResource EXCEPT !.url = url],
                <<request(url, IF _isGLB(url) THEN "arraybuffer" ELSE "json")>>,
                "pending", <<LoadEvent("request", 1)>>)

\* The json request is answered: glTFResource.gltf = gltf, then one request
\* per entry of gltf.buffers, in order, and Promise.all of them; a document
\* without buffers makes the callback throw, one with an empty list
\* fulfils Promise.all at once.
RespondGltf ==
  \E gltf \in GltfDocs :
    \E reqs \in {Complete(requests, 1, "fulfilled", <<gltf>>)
                  \o BufferRequests(glTFResource.url, gltf)} :
      /\ parsePromise = "pending"
      /\ ~_isGLB(glTFResource.url)
      /\ requests[1].state = "pending"
      /\ LoadStep("gltf response",
                  [glTFResource EXCEPT
                     !.gltf = <<gltf>>,
                     !.buffers = IF gltf.hasBuffers /\ gltf.buffers = <<>>
                                 THEN <<PromiseAll(BufferRequestsOf(reqs))>> ELSE @],
                  reqs,
                  IF ~gltf.hasBuffers THEN "rejected"
                  ELSE IF gltf.buffers = <<>> THEN "fulfilled" ELSE "pending",
                  <<LoadEvent("fulfilled", 1), LoadEvent("set gltf", 0)>>
                  \o [i \in 1..Len(gltf.buffers) |-> LoadEvent("request", i + 1)]
                  \o (IF ~gltf.hasBuffers THEN <<LoadEvent("reject", 0)>>
                      ELSE IF gltf.buffers = <<>>
                      THEN <<LoadEvent("set buffers", 0), LoadEvent("resolve", 0)>>
                      ELSE <<>>))

\* The request of a GLB url is answered: GLTFUtil.parseGLB gives the
\* document and its buffers, and both are assigned in one callback.
RespondGLB ==
  \E gltf \in {g \in GltfDocs : g.hasBuffers} :
    /\ parsePromise = "pending"
    /\ _isGLB(glTFResource.url)
    /\ requests[1].state = "pending"
    /\ LoadStep("glb response",
                [glTFResource EXCEPT
                   !.gltf = <<gltf>>,
                   !.buffers = <<[i \in 1..Len(gltf.buffers) |->
                                   ArrayBufferOf(parseRelativeUrl(glTFResource.url,
                                                                  gltf.buffers[i].uri))[1]]>>],
                Complete(requests, 1, "fulfilled", <<gltf>>),
                "fulfilled",
                <<LoadEvent("fulfilled", 1), LoadEvent("set gltf", 0),
                  LoadEvent("set buffers", 0), LoadEvent("resolve", 0)>>)

\* A buffer request is answered: when it was the last one Promise.all
\* waited for, glTFResource.buffers = buffers and the parse is fulfilled.
RespondBuffer ==
  \E i \in 2..Len(requests) :
    \E reqs \in {Complete(requests, i, "fulfilled", ArrayBufferOf(requests[i].target))} :
      \E all \in {\A j \in 2..Len(reqs) : reqs[j].state = "fulfilled"} :
        /\ requests[i].state = "pending"
        /\ LoadStep("buffer response",
                    IF all
                    THEN [glTFResource EXCEPT
                            !.buffers = <<PromiseAll(BufferRequestsOf(reqs))>>]
                    ELSE glTFResource,
                    reqs,
                    IF all THEN "fulfilled" ELSE parsePromise,
                    <<LoadEvent("fulfilled", i)>>
                    \o (IF all THEN <<LoadEvent("set buffers", 0), LoadEvent("resolve", 0)>>
                        ELSE <<>>))

\* A request fails: the promise of parse, still pending, is rejected.
FailRequest ==
  \E i \in 1..Len(requests) :
    /\ requests[i].state = "pending"
    /\ LoadStep("request failed", glTFResource,
                Complete(requests, i, "rejected", <<>>),
                "rejected",
                <<LoadEvent("rejected", i)>>
                \o (IF parsePromise = "pending" THEN <<LoadEvent("reject", 0)>> ELSE <<>>))

\* ----------------------------------------------------------- specifications
NextSort ==
  \/ PushPrimitive
  \/ SortNearToFar
  \/ SortFarToNear
  \/ Clear

\* RenderQueue.sort on queues of up to MaxLen elements.
SpecSort == InitSort /\ [][NextSort]_vars

NextRender ==
  \/ PushSceneElement
  \/ DestroyMaterial
  \/ QueueRender
  \/ CameraRenderDefault

\* RenderQueue.render and Camera.render on a scene of meshes and sprites.
SpecRender == InitRender /\ [][NextRender]_vars

NextCamera ==
  \/ SetNearClipPlane
  \/ SetFarClipPlane
  \/ SetFieldOfView
  \/ SetAspectRatio
  \/ SetViewport
  \/ SetIsOrthographic
  \/ SetOrthographicSize
  \/ SetProjectionMatrix
  \/ ResetProjectionMatrix
  \/ ResetAspectRatio
  \/ GetProjectionMatrix
  \/ ViewportToWorldPoint
  \/ ResizeCanvas
  \/ CameraRender

\* The Camera's projection state under setters, reads and renders.
SpecCamera == InitRender /\ [][NextCamera]_vars

InitFrame ==
  /\ renderers = SceneRenderers
  /\ InitQueue /\ InitGpu /\ InitCamera /\ InitText /\ InitFonts /\ InitLoader
  /\ engine \in {NewEngine(isWebGL2) : isWebGL2 \in BOOLEAN}
  /\ lastOp = "none"
  /\ calls = 0
  /\ call = NoCall
  /\ steps = 0

NextFrame ==
  \/ TransformChange
  \/ GetViewMatrix
  \/ SetEnableFrustumCulling
  \/ SetNearClipPlane
  \/ ViewportToWorldPoint
  \/ CameraRender
  \/ Destroy

\* The Camera's view matrix, frustum and lifecycle over frames, on either
\* backend.
SpecFrame == InitFrame /\ [][NextFrame]_vars

\* The queues of the upload specification: every queue of one to MaxItems
\* elements of the scene, pushed in order.
UploadQueues ==
  {[k \in 1..Len(q) |-> Element(k - 1, q[k].component, q[k].mesh, q[k].material)] :
     q \in SeqsUpTo(SceneElements, MaxItems) \ {<<>>}}

InitUpload ==
  /\ renderers = SceneRenderers
  /\ items \in UploadQueues
  /\ lastSort = "none"
  /\ sortCount = 0
  /\ before = <<>>
  /\ sortLog = <<>>
  /\ InitGpu /\ InitEngine /\ InitCamera /\ InitText /\ InitFonts /\ InitLoader
  /\ lastOp = "none"
  /\ calls = 0
  /\ call = NoCall
  /\ steps = 0

NextUpload ==
  \/ DestroyMaterial
  \/ QueueRenderAnyCamera
  \/ CameraRenderDefault

\* RenderQueue.render on a filled queue for several cameras, and frames.
SpecUpload == InitUpload /\ [][NextUpload]_vars

\* Render calls of several cameras, in one frame or in successive frames.
NextCounter ==
  \/ QueueRenderAnyCamera
  \/ CameraRenderDefault
  \/ FrameEnd

SpecCounter == InitUpload /\ [][NextCounter]_vars

\* The text renderer: its setters, transform changes and _render.
NextText ==
  \/ SetText
  \/ SetTextWidth
  \/ SetTextHeight
  \/ SetHorizontalAlignment
  \/ SetEnableWrapping
  \/ SetOverflowMode
  \/ TextTransformChanged
  \/ TextRender

SpecText == InitRender /\ [][NextText]_vars

\* Every setter of the text renderer, its transform listener and its two
\* lazy readers.
NextDirty ==
  \/ SetText
  \/ SetTextWidth
  \/ SetTextHeight
  \/ SetFont
  \/ SetFontSize
  \/ SetFontStyle
  \/ SetLineSpacing
  \/ SetHorizontalAlignment
  \/ SetVerticalAlignment
  \/ SetEnableWrapping
  \/ SetOverflowMode
  \/ SetMaskInteraction
  \/ TextTransformChanged
  \/ TextRender
  \/ GetBounds

SpecDirty == InitRender /\ [][NextDirty]_vars

\* Two text renderers on the one record pool: layout passes and destroys.
NextPool ==
  \/ SetText
  \/ TextRender
  \/ GetBounds
  \/ TextDestroy
  \/ OtherSetText
  \/ OtherRender
  \/ OtherDestroy

SpecPool == InitRender /\ [][NextPool]_vars

\* The layout of texts with and without blanks, read by _render and by the
\* bounds getter.
NextBounds ==
  \/ SetText
  \/ SetTextWithBlanks
  \/ SetTextWidth
  \/ SetHorizontalAlignment
  \/ SetEnableWrapping
  \/ TextRender
  \/ GetBounds

SpecBounds == InitRender /\ [][NextBounds]_vars

\* Two text renderers and the fonts they count themselves on: assignments,
\* destroys, a new renderer, and the destroy of a font nothing references.
NextRef ==
  \/ AssignFont
  \/ OtherAssignFont
  \/ TextDestroy
  \/ OtherDestroy
  \/ OtherConstruct
  \/ DestroyUnusedFont

SpecRef == InitRender /\ [][NextRef]_vars

\* One sub font: glyph uploads, registrations, lookups and destroy.
NextSubFont ==
  \/ UploadCharTexture
  \/ AddCharInfo
  \/ GetCharInfo
  \/ DestroySubFont

SpecSubFont == InitRender /\ [][NextSubFont]_vars

\* The font registry shared by the engines.
NextFont ==
  \/ CreateFromOS
  \/ GetSubFont
  \/ UploadToSubFont
  \/ DestroyFont

SpecFont == InitRender /\ [][NextFont]_vars

\* One parse: the call, and the requests answered or failing in any order.
NextLoader ==
  \/ Parse
  \/ RespondGltf
  \/ RespondGLB
  \/ RespondBuffer
  \/ FailRequest

SpecLoader == InitRender /\ [][NextLoader]_vars

\* The registry under createFromOS, direct constructions and destroys.
NextRegistry ==
  \/ CreateFromOS
  \/ ConstructFont
  \/ DestroyFont

SpecRegistry == InitRender /\ [][NextRegistry]_vars

\* ------------------------------------------------------ sort: properties
Key(e) == <<renderers[e.component].priority, renderers[e.component].distance>>

\* Non-decreasing in (priority, distance).
NearToFarOrdered(a) ==
  \A i \in 1..(Len(a) - 1) :
    \/ Key(a[i])[1] < Key(a[i + 1])[1]
    \/ Key(a[i])[1] = Key(a[i + 1])[1] /\ Key(a[i])[2] <= Key(a[i + 1])[2]

\* Non-decreasing in priority, non-increasing in distance at equal priority.
FarToNearOrdered(a) ==
  \A i \in 1..(Len(a) - 1) :
    \/ Key(a[i])[1] < Key(a[i + 1])[1]
    \/ Key(a[i])[1] = Key(a[i + 1])[1] /\ Key(a[i])[2] >= Key(a[i + 1])[2]

Ordered(cmp, a) ==
  IF cmp = "NearToFar" THEN NearToFarOrdered(a) ELSE FarToNearOrdered(a)

Count(a, e) == Cardinality({i \in DOMAIN a : a[i] = e})

IndexOf(a, e) == CHOOSE i \in DOMAIN a : a[i] = e

HasTies(a) == \E i, j \in DOMAIN a : i # j /\ Key(a[i]) = Key(a[j])

QuickSortPath == sortLog # <<>> /\ sortLog[1].kind = "partition"

\* C1: after RenderQueue.sort the items are ordered by the comparator used:
\* near-to-far gives a sequence non-decreasing in (priority, distance),
\* far-to-near one non-decreasing in priority and non-increasing in distance
\* among equal priorities, for every length (quicksort path included).
C1_SortedAfterSort ==
  /\ lastSort = "NearToFar" => NearToFarOrdered(items)
  /\ lastSort = "FarToNear" => FarToNearOrdered(items)

\* A far-to-near sort of more than ten elements that were not in order.
C1_Witness ==
  /\ lastSort = "FarToNear"
  /\ Len(items) > InsertionSortThreshold
  /\ QuickSortPath
  /\ ~FarToNearOrdered(before)
  /\ ~NearToFarOrdered(items)

\* C2: sort reorders in place: the elements after the sort are the elements
\* before it, each as often as before, and the length is unchanged.
C2_SortKeepsMultiset ==
  lastSort # "none" =>
    /\ Len(items) = Len(before)
    /\ \A i \in DOMAIN before : Count(items, before[i]) = Count(before, before[i])
    /\ \A i \in DOMAIN items : Count(before, items[i]) = Count(items, items[i])

\* A quicksort-path sort that moved elements.
C2_Witness ==
  /\ lastSort # "none"
  /\ QuickSortPath
  /\ items # before

\* C3 as stated: sorting a sequence already ordered by the comparator leaves
\* every index holding the same element, for any length.
C3_Original_NoMovement ==
  (lastSort # "none" /\ Ordered(lastSort, before)) => items = before

\* C3 as amended: sorting a sequence already ordered by the comparator leaves
\* the same (priority, distance) at every index, and the same element at
\* every index when the length is at most ten; on longer lists elements that
\* compare equal may change places.
C3_SortedInputKeepsKeys ==
  (lastSort # "none" /\ Ordered(lastSort, before)) =>
    /\ Len(items) = Len(before)
    /\ \A i \in DOMAIN before : Key(items[i]) = Key(before[i])
    /\ Len(before) <= InsertionSortThreshold => items = before

\* An ordered list of more than ten elements with ties was sorted again.
C3_Witness ==
  /\ lastSort # "none"
  /\ Ordered(lastSort, before)
  /\ Len(before) > InsertionSortThreshold
  /\ HasTies(before)
  /\ sortCount = 2

\* The output of a plain insertion sort of b: ordered, the same elements, and
\* elements that compare equal in the order they had in b.
IsInsertionSortOf(cmp, a, b) ==
  /\ Ordered(cmp, a)
  /\ Len(a) = Len(b)
  /\ \A i \in DOMAIN b : Count(a, b[i]) = 1
  /\ \A i, j \in DOMAIN a :
       (i < j /\ Key(a[i]) = Key(a[j])) => IndexOf(b, a[i]) < IndexOf(b, a[j])

\* Each side a partition step leaves is taken up by a later step: an
\* insertion sort when it has at most ten elements, a partition otherwise.
SidesFinished(k) ==
  LET p == sortLog[k]
  IN  \A side \in {<<p.from, p.low_end>>, <<p.high_start, p.to>>} :
        \E m \in (k + 1)..Len(sortLog) :
          /\ sortLog[m].from = side[1]
          /\ sortLog[m].to = side[2]
          /\ sortLog[m].kind =
               IF side[2] - side[1] <= InsertionSortThreshold
               THEN "insertion" ELSE "partition"

\* C4: a list of at most ten elements gets exactly the output of a plain
\* insertion sort over the whole range; partitioning happens only on ranges
\* longer than ten, and every range of at most ten elements the quicksort
\* reaches is insertion-sorted.
C4_ShortRangesInsertionSorted ==
  lastSort # "none" =>
    /\ Len(before) <= InsertionSortThreshold =>
         /\ IsInsertionSortOf(lastSort, items, before)
         /\ Len(sortLog) = 1
         /\ sortLog[1].kind = "insertion"
         /\ sortLog[1].from = 0 /\ sortLog[1].to = Len(before)
    /\ \A k \in DOMAIN sortLog :
         /\ sortLog[k].kind = "partition" =>
              /\ sortLog[k].to - sortLog[k].from > InsertionSortThreshold
              /\ SidesFinished(k)
         /\ sortLog[k].kind = "insertion" =>
              sortLog[k].to - sortLog[k].from <= InsertionSortThreshold

\* Ten elements with ties, out of order, were sorted.
C4_Witness ==
  /\ lastSort # "none"
  /\ Len(before) = InsertionSortThreshold
  /\ HasTies(before)
  /\ ~Ordered(lastSort, before)
  /\ sortCount = 1


\* ---------------------------------------------------- render: properties
RenderOps == {"render", "queue render"}

\* The element passes the mask of the last render call.
PassesMask(e, c) == BitAnd(renderers[e.component].layer, c.mask) # 0

\* The positions of log at which operation name ran for element id.
OpsFor(log, id, name) ==
  {k \in DOMAIN log : log[k].item = id /\ log[k].op = name}

Touched(log, id) == \E k \in DOMAIN log : log[k].item = id

\* The times the full upload branch was taken for program p.
FullUploads(log, p) ==
  {k \in DOMAIN log : log[k].op = "groupingOtherUniformBlock" /\ log[k].program = p}

Binds(log, p) == {k \in DOMAIN log : log[k].op = "bind" /\ log[k].program = p}

FirstOf(S) == CHOOSE k \in S : \A j \in S : k <= j

LastOf(S) == CHOOSE k \in S : \A j \in S : k >= j

\* The element has been through the loop body as far as it goes: a sprite is
\* with the batcher, a mesh with a valid program is drawn, a mesh with an
\* invalid one is flushed and pre-rendered.
Processed(log, e, c) ==
  IF ~e.mesh THEN OpsFor(log, e.id, "drawElement") # {}
  ELSE /\ OpsFor(log, e.id, "flush") # {}
       /\ OpsFor(log, e.id, "_preRender") # {}
       /\ isValid(ResolveProgram(e, c)) => OpsFor(log, e.id, "drawPrimitive") # {}

\* Every mesh of the queue is of one renderer and one material, and its
\* program is valid.
SameProgramMeshes ==
  /\ items # <<>>
  /\ \A i \in DOMAIN items :
       /\ items[i].mesh
       /\ items[i].component = items[1].component
       /\ items[i].material = items[1].material
       /\ items[i].shaderPass # "pBad"

\* C5 as stated: of two consecutive frames of the same meshes the first
\* takes the full upload branch once for their program and the second never.
C5_Original_SecondFrameNoFullUpload ==
  [][(lastOp = "render" /\ lastOp' = "render" /\ SameProgramMeshes)
       => \A p \in ProgramKeys :
            Binds(ops', p) # {} =>
              /\ Cardinality(FullUploads(ops, p)) = 1
              /\ Cardinality(FullUploads(ops', p)) = 0]_vars

\* C5: a render call takes the full upload branch for a program once, at the
\* first element it draws with the program, when the program was not yet
\* uploaded under the current frame count, and never otherwise; the second
\* of two consecutive Camera.render frames takes it once for every program
\* it draws with.
C5_FullUploadOncePerFrameCount ==
  [][lastOp' \in RenderOps
       => \A p \in ProgramKeys :
            LET full == FullUploads(ops', p)
                bound == Binds(ops', p)
                due == bound # {} /\ programs[p].uploadRenderCount # call'.renderCount
            IN  /\ Cardinality(full) = IF due THEN 1 ELSE 0
                /\ due => ops'[FirstOf(full)].item = ops'[FirstOf(bound)].item
                /\ (lastOp = "render" /\ lastOp' = "render" /\ bound # {})
                     => Cardinality(full) = 1]_vars

\* Two frames of the same queue were rendered, and the second drew two
\* elements with one program and uploaded it in full once.
C5_Witness ==
  /\ lastOp = "render"
  /\ engine.renderCount = 2
  /\ calls = 2
  /\ \A m \in MaterialIds : ~materials[m].destroyed
  /\ \E p \in ProgramKeys :
       /\ Cardinality(Binds(ops, p)) >= 2
       /\ Cardinality(FullUploads(ops, p)) = 1

\* The elements of a that pass the mask of call c.
Visible(a, c) ==
  LET Test(e) == PassesMask(e, c)
  IN  SelectSeq(a, Test)

\* C6: in a render call an element is processed exactly if its layer meets
\* the mask; a masked-out element causes no operation at all, and the call
\* leaves the programs, the bound program and (when anything is visible) the
\* operations as if the masked-out elements were not in the queue.
C6_MaskFilter ==
  [][lastOp' \in RenderOps
       => /\ \A i \in DOMAIN items' :
               LET e == items'[i]
               IN  /\ Touched(ops', e.id) <=> PassesMask(e, call')
                   /\ PassesMask(e, call') => Processed(ops', e, call')
          /\ LET visible == Visible(items', call')
                 g == render(Gpu, visible, renderers, call')
             IN  /\ programs' = g.programs
                 /\ currentBind' = g.currentBind
                 /\ visible # <<>> => ops' = g.ops]_vars

\* A masked-out element came before a mesh that was drawn.
C6_Witness ==
  /\ lastOp = "queue render"
  /\ \E i, j \in DOMAIN items :
       /\ i < j
       /\ ~PassesMask(items[i], call)
       /\ ~Touched(ops, items[i].id)
       /\ OpsFor(ops, items[j].id, "drawPrimitive") # {}

\* The mask-passing meshes of the queue whose assigned material is destroyed.
DestroyedMeshes ==
  {i \in DOMAIN items :
     /\ items[i].mesh
     /\ PassesMask(items[i], call)
     /\ materials[items[i].material].destroyed}

\* The uploads of a material block (in full or textures only) for element id.
MaterialUploads(log, id) ==
  {k \in DOMAIN log :
     /\ log[k].item = id
     /\ log[k].op \in {"uploadAll", "uploadTextures"}
     /\ log[k].block = "material"}

\* C7: for a mesh whose material is destroyed the material block uploaded and
\* the identity stamped in _uploadMaterial are the magenta material's, never
\* the destroyed one's; the element goes through the loop body like any
\* other and so does every element after it.
C7_DestroyedMaterialReplaced ==
  lastOp \in RenderOps =>
    /\ \A i \in DestroyedMeshes :
         LET e == items[i]
             p == ResolveProgram(e, call)
         IN  /\ Processed(ops, e, call)
             /\ \A k \in MaterialUploads(ops, e.id) : ops[k].data = MagentaMaterial
             /\ isValid(p) =>
                  /\ ops[LastOf(Binds(ops, p))].item = e.id
                       => programs[p].uploadMaterial = MagentaMaterial
                  /\ programs[p].uploadRenderCount = call.renderCount
             /\ \A j \in DOMAIN items :
                  (j > i /\ PassesMask(items[j], call)) => Processed(ops, items[j], call)
    /\ \A k \in DOMAIN ops :
         (ops[k].block = "material" /\ ops[k].data \in MaterialIds)
           => ~materials[ops[k].data].destroyed
    /\ \A p \in ProgramKeys :
         (Binds(ops, p) # {} /\ programs[p].uploadMaterial \in MaterialIds)
           => ~materials[programs[p].uploadMaterial].destroyed

\* A mesh with a destroyed material was drawn with the magenta material's
\* block, which is the program's stamp, and a later element was drawn too.
C7_Witness ==
  /\ lastOp \in RenderOps
  /\ \E i \in DestroyedMeshes, j \in DOMAIN items :
       /\ j > i
       /\ OpsFor(ops, items[i].id, "drawPrimitive") # {}
       /\ \E k \in MaterialUploads(ops, items[i].id) :
            ops[k].op = "uploadAll" /\ ops[k].data = MagentaMaterial
       /\ OpsFor(ops, items[j].id, "drawPrimitive") # {}
       /\ \E p \in ProgramKeys : programs[p].uploadMaterial = MagentaMaterial

\* The mask-passing meshes of the queue whose resolved program is not valid.
InvalidMeshes ==
  {i \in DOMAIN items :
     /\ items[i].mesh
     /\ PassesMask(items[i], call)
     /\ ~isValid(ResolveProgram(items[i], call))}

\* C8: a mesh whose resolved program is not valid gets the batcher flush and
\* the material's _preRender and nothing else: no bind, no upload, no render
\* state, no draw; an invalid program is never bound and keeps the stamps it
\* was created with; every later element is processed.
C8_InvalidProgramSkipped ==
  lastOp \in RenderOps =>
    /\ \A i \in InvalidMeshes :
         /\ \A k \in DOMAIN ops :
              ops[k].item = items[i].id => ops[k].op \in {"flush", "_preRender"}
         /\ \A j \in DOMAIN items :
              (j > i /\ PassesMask(items[j], call)) => Processed(ops, items[j], call)
    /\ \A p \in ProgramKeys :
         ~isValid(p) =>
           /\ programs[p] = InitialStamps
           /\ currentBind # p
           /\ \A k \in DOMAIN ops : ops[k].program # p

\* A mesh with an invalid program came before a mesh that was drawn.
C8_Witness ==
  /\ lastOp \in RenderOps
  /\ \E i \in InvalidMeshes, j \in DOMAIN items :
       /\ j > i
       /\ OpsFor(ops, items[i].id, "_preRender") # {}
       /\ OpsFor(ops, items[j].id, "drawPrimitive") # {}


\* ---------------------------------------------------- camera: properties
\* The mutations C9 names.
ProjectionSetters ==
  {"set nearClipPlane", "set farClipPlane", "set fieldOfView", "set orthographicSize",
   "set viewport", "set aspectRatio", "set isOrthographic", "resetAspectRatio",
   "resetProjectionMatrix"}

\* C9: each of these mutations sets the four projection dirty marks in the
\* one call and leaves the cached projection matrix, inverse projection
\* matrix, inverse view-projection matrix and frustum as they were.
C9_SettersMarkDirtyOnly ==
  [][lastOp' \in ProjectionSetters
       => /\ camera'.isFrustumProjectDirty
          /\ camera'.isProjectionDirty
          /\ camera'.isInvProjMatDirty
          /\ camera'.isInvViewProjDirty
          /\ camera'.projectionMatrix = camera.projectionMatrix
          /\ camera'.inverseProjectionMatrix = camera.inverseProjectionMatrix
          /\ camera'.invViewProjMat = camera.invViewProjMat
          /\ camera'.frustum = camera.frustum]_vars

\* A mutation has just marked everything dirty and the caches, computed
\* before it, are those of the old parameters.
C9_Witness ==
  /\ lastOp \in ProjectionSetters
  /\ camera.isFrustumProjectDirty /\ camera.isProjectionDirty
  /\ camera.isInvProjMatDirty /\ camera.isInvViewProjDirty
  /\ camera.projectionMatrix.kind = "perspective"
  /\ camera.invViewProjMat.kind = "product"
  /\ camera.frustum.kind = "frustum"
  /\ camera.projectionMatrix # DerivedProjection(camera, canvas)

\* The mutations C10 names.
ParameterSetters ==
  {"set nearClipPlane", "set farClipPlane", "set fieldOfView", "set orthographicSize",
   "set viewport", "set aspectRatio"}

\* C10 as stated: the read of projectionMatrix that follows a parameter
\* mutation returns the matrix derived from the new parameters.
C10_Original_ReadAfterSetterDerives ==
  [][(lastOp \in ParameterSetters /\ lastOp' = "get projectionMatrix")
       => camera'.projectionMatrix = DerivedProjection(camera', canvas')]_vars

\* C10: while no projection matrix is set manually, every read of
\* projectionMatrix (by the getter or by Camera.render) returns the matrix
\* derived from the parameters and the canvas as they are at the read, so no
\* mutation before the read is lost.
C10_ReadDerivesUnlessManual ==
  (lastOp \in {"get projectionMatrix", "render"} /\ ~camera.isProjMatSetting)
    => /\ camera.projectionMatrix = DerivedProjection(camera, canvas)
       /\ ~camera.isProjectionDirty

\* A read after the near plane was moved returned a matrix with the new near
\* plane.
C10_Witness ==
  /\ lastOp = "get projectionMatrix"
  /\ ~camera.isProjMatSetting
  /\ steps >= 3
  /\ camera.nearClipPlane = 2
  /\ camera.projectionMatrix.kind = "perspective"
  /\ camera.projectionMatrix.near = 2


\* C11 as stated: while a projection matrix is set manually every read of
\* projectionMatrix returns it, and once it is reset the read returns the
\* matrix derived from the parameters.
C11_ManualMatrixKept ==
  lastOp = "get projectionMatrix" =>
    IF camera.isProjMatSetting
    THEN camera.projectionMatrix \in ManualMatrices
    ELSE camera.projectionMatrix = DerivedProjection(camera, canvas)

\* ----------------------------------------------------- frame: properties
\* C12: a read of viewMatrix derives the matrix from the transform exactly
\* when the view-matrix flag is set, and otherwise changes nothing; after the
\* read the flag is clear and the matrix is that of the transform's pose; the
\* other two world-change flags are as before.
C12_ViewMatrixOnFlag ==
  [][lastOp' = "get viewMatrix"
       => /\ camera.isViewMatrixDirty =>
               camera' = [camera EXCEPT !.isViewMatrixDirty = FALSE,
                                        !.viewMatrix = viewOf(transform.pose)]
          /\ ~camera.isViewMatrixDirty => camera' = camera
          /\ ~camera'.isViewMatrixDirty
          /\ camera'.viewMatrix = viewOf(transform'.pose)
          /\ camera'.isInvViewProjDirty = camera.isInvViewProjDirty
          /\ camera'.frustumViewChangeFlag = camera.frustumViewChangeFlag]_vars

\* After a read, a transform change and a second read the matrix is that of
\* the new pose.
C12_Witness ==
  /\ lastOp = "get viewMatrix"
  /\ steps >= 3
  /\ transform.pose = 1
  /\ camera.viewMatrix = viewOf(1)
  /\ ~camera.isViewMatrixDirty

\* The frustum step of a render is due.
FrustumDue(cam) ==
  cam.enableFrustumCulling /\ (cam.frustumViewChangeFlag \/ cam.isFrustumProjectDirty)

\* C13: a render recomputes the frustum from the new view-projection matrix
\* and clears the two marks exactly when culling is enabled and one of the
\* marks is set; otherwise frustum and marks stay as they were, so the second
\* of two consecutive renders never recomputes and a mark set while culling is
\* disabled survives until culling is enabled.
C13_FrustumOnMarks ==
  [][lastOp' = "render"
       => /\ FrustumDue(camera) =>
               /\ camera'.frustum = calculateFromMatrix(camera'.viewProjectionMatrix)
               /\ ~camera'.frustumViewChangeFlag
               /\ ~camera'.isFrustumProjectDirty
          /\ ~FrustumDue(camera) =>
               /\ camera'.frustum = camera.frustum
               /\ camera'.frustumViewChangeFlag = camera.frustumViewChangeFlag
               /\ camera'.isFrustumProjectDirty = camera.isFrustumProjectDirty
          /\ lastOp = "render" => camera'.frustum = camera.frustum]_vars

\* The transform changed while culling was disabled, a render left the mark
\* set, and the render after culling was enabled computed the frustum of the
\* new pose.
C13_Witness ==
  /\ lastOp = "render"
  /\ calls = 2
  /\ transform.pose = 1
  /\ camera.enableFrustumCulling
  /\ ~camera.frustumViewChangeFlag
  /\ camera.frustum = calculateFromMatrix(camera.viewProjectionMatrix)
  /\ camera.viewMatrix = viewOf(1)

\* C14: a render asked for a mip level above 0 on a backend that is not
\* WebGL2 logs the error and renders mip level 0; any other render logs no
\* error and renders the level asked for; either way the pipeline renders
\* with the frame count of the call and the frame count goes up by one.
C14_MipLevelClamped ==
  [][lastOp' = "render"
       => /\ IF engine'.mipRequested > 0 /\ ~engine'.isWebGL2
             THEN engine'.errorLogged /\ engine'.mipLevel = 0
             ELSE ~engine'.errorLogged /\ engine'.mipLevel = engine'.mipRequested
          /\ engine'.renderCount = engine.renderCount + 1
          /\ call'.renderCount = engine.renderCount
          /\ call'.mask = camera.cullingMask
          /\ calls' = calls + 1]_vars

\* A render for mip level 1 without WebGL2 was clamped and counted.
C14_Witness ==
  /\ lastOp = "render"
  /\ ~engine.isWebGL2
  /\ engine.mipRequested = 1
  /\ engine.mipLevel = 0
  /\ engine.errorLogged
  /\ engine.renderCount >= 1

\* C15 as stated: a destroyed camera's pipeline is destroyed, none of its
\* world-change flags is registered on the transform and its shader data has
\* lost the reference the constructor added.
C15_DestroyReleasesAll ==
  camera.destroyed =>
    /\ camera.pipelineDestroyed
    /\ transform.flags = {}
    /\ camera.shaderDataRefCount = 0

\* ----------------------------------------------------- text: properties
\* A step that is a TextRenderer._render call.
RenderStep == lastOp' = "TextRenderer._render" /\ steps' # steps

\* C16: a _render call on a renderer whose text is "", or that wraps with a
\* width of 0 or less, or that truncates with a height of 0 or less, is a
\* no-op: it pushes no element, takes nothing from the record, sprite element
\* or text element pools and returns nothing to them, runs no stage, and
\* leaves _dirtyFlag, _subFont and _charRenderDatas (every field of the
\* renderer) as they were.
C16_ShortCircuitIsNoOp ==
  [][(RenderStep /\ RenderShortCircuits(textRenderer))
       => /\ textLog' = NoTextLog
          /\ charPool' = charPool
          /\ textRenderer'.dirtyFlag = textRenderer.dirtyFlag
          /\ textRenderer'.subFont = textRenderer.subFont
          /\ textRenderer'.charRenderDatas = textRenderer.charRenderDatas
          /\ textRenderer' = textRenderer]_vars

\* A short-circuited _render has run on a renderer that has a text, records
\* of an earlier layout and dirty flags: it wraps with width 0.
C16_Witness ==
  /\ lastOp = "TextRenderer._render"
  /\ textLog = NoTextLog
  /\ textRenderer.text # <<>>
  /\ textRenderer.enableWrapping /\ textRenderer.width <= 0
  /\ textRenderer.charRenderDatas # <<>>
  /\ DirtyFlag.LocalPositionBounds \subseteq textRenderer.dirtyFlag

\* How many records of datas hold character char.
RecordsOf(datas, char) == Cardinality({k \in 1..Len(datas) : datas[k].char = char})

\* How many times the visible (h > 0) character char occurs in text.
VisibleOccurrences(text, char) ==
  Cardinality({k \in 1..Len(text) : text[k] = char /\ CharInfo(char).h > 0})

\* C17: after a _render call that did not return early, exactly one text
\* element was taken from the text element pool and pushed; its charElements
\* hold one sprite element per record of _charRenderDatas, in the records'
\* order, and the records are the visible (h > 0) glyphs of the current
\* text; the elements were built after the dirty stages ran: the SubFont,
\* LocalPositionBounds and WorldPosition flags are clear, the sub font is the
\* one of the current font, size and style, and every element carries the
\* world positions of its record's current local quad at the current pose.
C17_OneTextElementPerRender ==
  (lastOp = "TextRenderer._render" /\ ~RenderShortCircuits(textRenderer))
    => /\ Len(textLog.pushed) = 1
       /\ textLog.textGets = 1
       /\ Len(textLog.pushed[1].charElements) = Len(textRenderer.charRenderDatas)
       /\ textLog.spriteGets = Len(textRenderer.charRenderDatas)
       /\ \A char \in DOMAIN CharInfos :
            RecordsOf(textRenderer.charRenderDatas, char)
              = VisibleOccurrences(textRenderer.text, char)
       /\ \A k \in 1..Len(textRenderer.charRenderDatas) :
            /\ textLog.pushed[1].charElements[k].record = textRenderer.charRenderDatas[k].id
            /\ textLog.pushed[1].charElements[k].texture
                 = CharInfo(textRenderer.charRenderDatas[k].char).index
            /\ textLog.pushed[1].charElements[k].renderData
                 = [pose  |-> textRenderer.pose,
                    local |-> textRenderer.charRenderDatas[k].localPositions]
       /\ textRenderer.dirtyFlag
            \cap (DirtyFlag.SubFont \cup DirtyFlag.LocalPositionBounds
                    \cup DirtyFlag.WorldPosition) = {}
       /\ textRenderer.subFont
            = <<textRenderer.font, textRenderer.fontSize, textRenderer.fontStyle>>

\* A _render has pushed the element of a text with an invisible glyph whose
\* two records the sort by texture reordered, after a transform change.
C17_Witness ==
  /\ lastOp = "TextRenderer._render"
  /\ textRenderer.text = <<"j", "space", "A">>
  /\ Len(textLog.pushed) = 1
  /\ Len(textLog.pushed[1].charElements) = 2
  /\ textRenderer.charRenderDatas[1].char = "A"
  /\ textRenderer.pose = 1

\* The renderer's text is laid out as a single line of two visible glyphs
\* whose widths equal their advances.
UniformTwoGlyphLine(r) ==
  /\ Len(r.text) = 2
  /\ \A k \in 1..2 : CharInfo(r.text[k]).h > 0 /\ CharInfo(r.text[k]).w = CharInfo(r.text[k]).xAdvance
  /\ Len((IF r.enableWrapping THEN measureTextWithWrap(r)
          ELSE measureTextWithoutWrap(r)).lines) = 1

\* C18: once the layout has run (the LocalPositionBounds flag is clear) for a
\* single-line text of two visible glyphs with width = advance under
\* horizontal-center alignment, the local bounds are symmetric about the
\* origin in x, min.x = -max.x, whatever the renderer's width is.
C18_CenterBoundsSymmetric ==
  (/\ ~_isContainDirtyFlag(textRenderer, DirtyFlag.LocalPositionBounds)
   /\ textRenderer.horizontalAlignment = "Center"
   /\ UniformTwoGlyphLine(textRenderer))
    => textRenderer.localBounds.min[1] = -textRenderer.localBounds.max[1]

\* Such a text has been laid out centered in a renderer of width 2, and its
\* bounds are not empty.
C18_Witness ==
  /\ lastOp = "TextRenderer._render"
  /\ ~_isContainDirtyFlag(textRenderer, DirtyFlag.LocalPositionBounds)
  /\ textRenderer.horizontalAlignment = "Center"
  /\ UniformTwoGlyphLine(textRenderer)
  /\ textRenderer.width = 2
  /\ textRenderer.localBounds.max[1] > 0

\* ----------------------------------------------------- font: properties
\* A step that is a SubFont._uploadCharTexture call.
UploadStep == lastOp' = "_uploadCharTexture" /\ steps' # steps

\* A step that is a SubFont._addCharInfo call that did not throw.
AddStep == lastOp' = "_addCharInfo" /\ steps' # steps /\ ~fontLog'.threw

\* The pages an upload of a bitmap of the given size is to create: page 0 on
\* the very first call, and one more when the cursor page rejects the bitmap.
PagesDue(sf, size) ==
  (IF sf.lastIndex = -1 THEN 1 ELSE 0) + (IF UploadRejected(sf, size) THEN 1 ELSE 0)

\* C19: an _uploadCharTexture call creates exactly one page when the cursor
\* page rejects the bitmap and none when it accepts it, apart from page 0 on
\* the very first call, and moves the cursor to the last page; a glyph that
\* _addCharInfo recorded is found by _getCharInfo at once, and a glyph found
\* before an upload is found after it with the same record, on whatever page
\* it lies.
C19_RejectedUploadAddsOnePage ==
  [][/\ UploadStep
          => /\ Len(subFont'.fontAtlases)
                  = Len(subFont.fontAtlases) + PagesDue(subFont, fontLog'.size)
             /\ \A char \in Chars :
                  _getCharInfo(subFont, char) # NoCharInfo
                    => _getCharInfo(subFont', char) = _getCharInfo(subFont, char)
     /\ AddStep => _getCharInfo(subFont', fontLog'.char) # NoCharInfo]_vars

\* An upload was rejected by the full page 0 and created page 1, the cursor
\* moved on to it, and _getCharInfo still finds the glyph recorded on page 0.
C19_Witness ==
  /\ lastOp = "_uploadCharTexture"
  /\ Len(subFont.fontAtlases) = 2
  /\ subFont.lastIndex = 1
  /\ \E char \in Chars : _getCharInfo(subFont, char).index = 0

\* C20: the font createFromOS(engine, name) returns for a non-empty name
\* belongs to the engine that was passed, also when another engine created a
\* font with that name before; an empty name returns null and leaves the
\* registry without an entry for it.
C20_FontBelongsToEngine ==
  lastOp = "createFromOS"
    => IF fontLog.name = ""
       THEN fontLog.result = NoFont /\ fontMap[""] = NoFont
       ELSE /\ fontLog.result # NoFont
            /\ fontLog.result = fontMap[fontLog.name]
            /\ fonts[fontLog.result].engine = fontLog.engine

\* A step that is the destroy of a font.
DestroyFontStep == lastOp' = "Font._onDestroy" /\ steps' # steps

\* A step that is a Font.createFromOS call.
CreateStep == lastOp' = "createFromOS" /\ steps' # steps

\* C21: destroying a font destroys every page of every sub font the font
\* created and leaves those sub fonts with an empty page list, and removes
\* the font's name from the registry; a createFromOS call never returns a
\* destroyed font, and with no entry under the name it constructs a new one.
C21_DestroyedFontReplaced ==
  [][/\ DestroyFontStep
          => /\ fonts'[fontLog'.font].destroyed
             /\ fontLog'.destroyedPages = PagesOf(fonts[fontLog'.font])
             /\ \A key \in fonts[fontLog'.font].subFontMap :
                  fonts'[fontLog'.font].subFonts[key].fontAtlases = <<>>
             /\ fontMap'[fonts[fontLog'.font].name] = NoFont
     /\ (CreateStep /\ fontLog'.name # "")
          => /\ ~fonts'[fontLog'.result].destroyed
             /\ fontMap[fontLog'.name] = NoFont
                  => /\ fontLog'.result = Len(fonts) + 1
                     /\ fonts'[fontLog'.result].engine = fontLog'.engine
                     /\ fontMap'[fontLog'.name] = fontLog'.result]_vars

\* A font that had an atlas page was destroyed and createFromOS with its
\* name has returned a second font.
C21_Witness ==
  /\ lastOp = "createFromOS"
  /\ fontLog.result = 2
  /\ fonts[1].destroyed
  /\ fonts[1].name = fonts[2].name
  /\ fonts[1].subFonts[<<24, "None">>].lastIndex = 0
  /\ fonts[1].subFonts[<<24, "None">>].fontAtlases = <<>>

\* --------------------------------------------------- upload: properties
\* The GPU state of the render call of this step when its loop has been
\* through the first n elements of the queue.
StateAfter(n) == RenderLoop(Gpu, SubSeq(items', 1, n), renderers, 0, call')

\* What the log holds for element id, in order.
ElementOps(log, id) == SelectSeq(log, LAMBDA o : o.item = id)

\* The positions of the queue of this step's render call whose element is a
\* mask-passing mesh with a valid program: the elements that are drawn.
DrawnMeshes ==
  {i \in DOMAIN items' :
     /\ items'[i].mesh
     /\ PassesMask(items'[i], call')
     /\ isValid(ResolveProgram(items'[i], call'))}

\* The scene, camera, renderer and effective material of element e in call c.
CurrentData(e, c) ==
  [scene |-> c.scene, camera |-> c.camera, renderer |-> RendererName[e.component],
   material |-> EffectiveMaterial(e, c.materials)]

\* The five stamps of a program that was uploaded for d at frame count n.
StampsOf(d, n) ==
  [uploadRenderCount |-> n, uploadScene |-> d.scene, uploadCamera |-> d.camera,
   uploadRenderer |-> d.renderer, uploadMaterial |-> d.material]

\* What an element logs between bind and renderState._apply.
UploadsOf(eops) == SubSeq(eops, 4, Len(eops) - 2)

\* The uploads of the full branch, in order.
ExpectedFull(id, p, d) ==
  <<Op("groupingOtherUniformBlock", id, p, "none", Null),
    Op("uploadAll", id, p, "scene", d.scene),
    Op("uploadAll", id, p, "camera", d.camera),
    Op("uploadAll", id, p, "renderer", d.renderer),
    Op("uploadAll", id, p, "material", d.material),
    Op("uploadUnGroupTextures", id, p, "ungroup", Null)>>

\* C22: in a render call a drawn element whose program's _uploadRenderCount
\* differs from the call's render counter gets the full upload: uploadAll of
\* the scene, camera, renderer and material blocks and uploadUnGroupTextures,
\* after which the program's five stamps are the current scene, camera,
\* renderer, effective material and render counter; a call takes the full
\* branch at most once per program, and never for a program that already
\* carries the call's render counter.
C22_FullUploadOnCounterChange ==
  [][lastOp' \in RenderOps
       => /\ \A i \in DrawnMeshes :
               \E e \in {items'[i]} :
                 \E p \in {ResolveProgram(e, call')} :
                   StateAfter(i - 1).programs[p].uploadRenderCount # call'.renderCount
                     => /\ UploadsOf(ElementOps(ops', e.id))
                             = ExpectedFull(e.id, p, CurrentData(e, call'))
                        /\ StateAfter(i).programs[p]
                             = StampsOf(CurrentData(e, call'), call'.renderCount)
          /\ \A p \in ProgramKeys :
               /\ Cardinality(FullUploads(ops', p)) <= 1
               /\ programs[p].uploadRenderCount = call'.renderCount
                    => FullUploads(ops', p) = {}
               /\ FullUploads(ops', p) # {}
                    => /\ programs[p].uploadRenderCount # call'.renderCount
                       /\ programs'[p].uploadRenderCount = call'.renderCount]_vars

\* The second frame drew two elements with one program: the first took the
\* full branch because the counter had moved on, the second did not.
C22_Witness ==
  /\ lastOp = "render"
  /\ call.renderCount = 1
  /\ \E p \in ProgramKeys :
       /\ Cardinality(Binds(ops, p)) = 2
       /\ Cardinality(FullUploads(ops, p)) = 1
       /\ programs[p].uploadRenderCount = 1
       /\ ops[FirstOf(Binds(ops, p)) + 1].op = "groupingOtherUniformBlock"

\* One block of the else branch: uploadAll when the stamp differs from the
\* current data source, else uploadTextures when the program was switched.
ExpectedBlock(id, p, block, stamp, current, switched) ==
  IF stamp # current THEN <<Op("uploadAll", id, p, block, current)>>
  ELSE IF switched THEN <<Op("uploadTextures", id, p, block, current)>>
  ELSE <<>>

\* The uploads of the else branch for stamps as they are before the element.
ExpectedDiff(id, p, stamps, d, switched) ==
  ExpectedBlock(id, p, "scene", stamps.uploadScene, d.scene, switched)
  \o ExpectedBlock(id, p, "camera", stamps.uploadCamera, d.camera, switched)
  \o ExpectedBlock(id, p, "renderer", stamps.uploadRenderer, d.renderer, switched)
  \o ExpectedBlock(id, p, "material", stamps.uploadMaterial, d.material, switched)
  \o (IF switched THEN <<Op("uploadUnGroupTextures", id, p, "ungroup", Null)>> ELSE <<>>)

\* C23: a drawn element whose program carries the call's render counter has
\* each of the four blocks decided on its own: uploadAll and the new stamp
\* exactly when the block's stamp differs from the current data source,
\* else uploadTextures exactly when bind() reported a switch; the ungrouped
\* textures are uploaded exactly when bind() reported a switch; afterwards
\* the four stamps are the current data sources, and with no stamp differing
\* and no switch nothing is uploaded.
C23_BlocksDecidedIndependently ==
  [][lastOp' \in RenderOps
       => \A i \in DrawnMeshes :
            \E e \in {items'[i]} :
              \E p \in {ResolveProgram(e, call')} :
                \E eops \in {ElementOps(ops', e.id)} :
                  StateAfter(i - 1).programs[p].uploadRenderCount = call'.renderCount
                    => /\ eops[3].op = "bind"
                       /\ UploadsOf(eops)
                            = ExpectedDiff(e.id, p, StateAfter(i - 1).programs[p],
                                           CurrentData(e, call'),
                                           eops[3].data = "switched")
                       /\ StateAfter(i).programs[p]
                            = StampsOf(CurrentData(e, call'), call'.renderCount)
                       /\ (/\ StateAfter(i - 1).programs[p]
                                = StampsOf(CurrentData(e, call'), call'.renderCount)
                           /\ eops[3].data = "same")
                            => UploadsOf(eops) = <<>>]_vars

\* Uploads of block for element id in the log, by operation.
BlockOps(log, id, block, name) ==
  {k \in DOMAIN log : log[k].item = id /\ log[k].block = block /\ log[k].op = name}

\* An element was drawn with a program already bound and stamped for the
\* frame, with another material than the stamped one: only the material
\* block was uploaded.
C23_Witness ==
  /\ lastOp = "queue render"
  /\ \E i \in DOMAIN items :
       /\ Len(ElementOps(ops, items[i].id)) = 6
       /\ ElementOps(ops, items[i].id)[3].data = "same"
       /\ UploadsOf(ElementOps(ops, items[i].id))
            = <<Op("uploadAll", items[i].id, ResolveProgram(items[i], call), "material",
                   items[i].material)>>

\* An element was drawn after a program switch with all four stamps
\* current: the textures of the four blocks and the ungrouped textures.
C23_WitnessSwitch ==
  /\ lastOp = "queue render"
  /\ \E i \in DOMAIN items :
       /\ BlockOps(ops, items[i].id, "scene", "uploadTextures") # {}
       /\ BlockOps(ops, items[i].id, "material", "uploadTextures") # {}
       /\ BlockOps(ops, items[i].id, "ungroup", "uploadUnGroupTextures") # {}

\* ---------------------------------------------------- batcher: properties
\* The positions of the log that hold operation name.
OpsNamed(log, name) == {k \in DOMAIN log : log[k].op = name}

\* The elements the batcher holds when the log has been run up to position k:
\* those handed to it and not drawn by a flush yet.
PendingAt(log, k) ==
  {log[j].item : j \in {j \in OpsNamed(log, "drawElement") : j < k}}
    \ {log[j].item : j \in {j \in OpsNamed(log, "spriteDraw") : j < k}}

\* The elements of the queue that pass the mask of call c, meshes or not.
PassingElements(c, isMesh) ==
  {i \in DOMAIN items : items[i].mesh = isMesh /\ PassesMask(items[i], c)}

\* C24: in a render call mesh draws and batched sprite draws do not
\* interleave: every mask-passing mesh flushes the batcher before anything
\* else it does, the other mask-passing elements are handed to the batcher
\* and drawn by a flush only, the call ends with the flush after the loop, no
\* drawPrimitive finds an element pending in the batcher, and every element
\* handed to the batcher has been drawn when the call returns.
C24_MeshAndSpriteDrawsApart ==
  lastOp = "queue render"
    => /\ \A i \in PassingElements(call, TRUE) :
            /\ ElementOps(ops, items[i].id)[1].op = "flush"
            /\ \A k \in OpsNamed(ops, "drawPrimitive") :
                 ops[k].item = items[i].id
                   => \E f \in OpsNamed(ops, "flush") :
                        /\ f < k
                        /\ ops[f].item = items[i].id
                        /\ \A j \in f..k : ops[j].op # "drawElement"
       /\ \A i \in PassingElements(call, FALSE) :
            [j \in 1..2 |-> ElementOps(ops, items[i].id)[j].op]
              = <<"drawElement", "spriteDraw">>
       /\ \A k \in OpsNamed(ops, "spriteDraw") :
            \E f \in OpsNamed(ops, "flush") :
              /\ f < k
              /\ \A j \in (f + 1)..k : ops[j].op = "spriteDraw"
       /\ \A k \in OpsNamed(ops, "drawPrimitive") : PendingAt(ops, k) = {}
       /\ \E f \in OpsNamed(ops, "flush") :
            /\ ops[f].item = AfterLoop
            /\ \A j \in (f + 1)..Len(ops) : ops[j].op = "spriteDraw"
       /\ PendingAt(ops, Len(ops) + 1) = {}
       /\ pending = <<>>

\* A sprite was handed to the batcher, then a mesh was drawn: the mesh's
\* flush drew the sprite first.
C24_Witness ==
  /\ lastOp = "queue render"
  /\ \E s \in OpsNamed(ops, "spriteDraw"), k \in OpsNamed(ops, "drawPrimitive") :
       /\ s < k
       /\ \E h \in OpsNamed(ops, "drawElement"), f \in OpsNamed(ops, "flush") :
            h < f /\ f < s /\ ops[f].item = ops[k].item

\* ------------------------------------------ projection getter: properties
\* The canvas size is not the one the getter saw at its last derivation.
CanvasSizeChanged == camera.lastAspectSize # <<canvas.width, canvas.height>>

\* The camera after a derivation by the getter.
Rederived ==
  [camera EXCEPT !.isProjectionDirty = FALSE,
                 !.lastAspectSize = <<canvas.width, canvas.height>>,
                 !.projectionMatrix = DerivedProjection(camera, canvas)]

C26_Original_OneCounterPerFrame ==
  [][/\ engine'.renderCount >= engine.renderCount
     /\ (lastOp \in RenderOps /\ lastOp' \in RenderOps)
          => call'.renderCount = call.renderCount]_vars

\* C26, amended: the render counter never decreases and is incremented once
\* by every Camera.render, after the camera's queue has rendered, and by
\* nothing else; a RenderQueue.render call observes the counter as it is
\* when the call starts and stamps every program it draws with with that one
\* value, so the calls of one Camera.render observe one value and a second
\* Camera.render, in the same frame or the next, observes the next value.
C26_CounterPerCameraRender ==
  [][/\ engine'.renderCount >= engine.renderCount
     /\ engine'.renderCount =
          IF lastOp' = "render" /\ calls' # calls
          THEN engine.renderCount + 1 ELSE engine.renderCount
     /\ (lastOp' \in RenderOps /\ calls' # calls)
          => /\ call'.renderCount = engine.renderCount
             /\ \A p \in ProgramKeys :
                  Binds(ops', p) # {}
                    => programs'[p].uploadRenderCount = call'.renderCount
     /\ (lastOp = "render" /\ lastOp' \in RenderOps)
          => call'.renderCount = call.renderCount + 1
     /\ (lastOp = "queue render" /\ lastOp' \in RenderOps)
          => call'.renderCount = call.renderCount]_vars

\* Two Camera.render calls followed one another in one frame: the second
\* observed the counter the first had incremented, and incremented it.
C26_Witness ==
  /\ lastOp = "render"
  /\ calls = 2
  /\ call.renderCount = 1
  /\ engine.renderCount = 2
  /\ \E p \in ProgramKeys : programs[p].uploadRenderCount = 1

\* ------------------------------------------------- dirty flags: properties
\* The field each setter writes and the flags it raises when the value is
\* new.
SetterOf ==
  [op \in {"set text", "set width", "set height", "set font", "set fontSize",
           "set fontStyle", "set lineSpacing", "set horizontalAlignment",
           "set verticalAlignment", "set enableWrapping", "set overflowMode",
           "set maskInteraction"} |->
     CASE op = "set text" -> [field |-> "text", flags |-> DirtyFlag.Position]
       [] op = "set width" -> [field |-> "width", flags |-> DirtyFlag.Position]
       [] op = "set height" -> [field |-> "height", flags |-> DirtyFlag.Position]
       [] op = "set font" -> [field |-> "font", flags |-> DirtyFlag.Font]
       [] op = "set fontSize" -> [field |-> "fontSize", flags |-> DirtyFlag.Font]
       [] op = "set fontStyle" -> [field |-> "fontStyle", flags |-> DirtyFlag.Font]
       [] op = "set lineSpacing" -> [field |-> "lineSpacing", flags |-> DirtyFlag.Position]
       [] op = "set horizontalAlignment" ->
            [field |-> "horizontalAlignment", flags |-> DirtyFlag.Position]
       [] op = "set verticalAlignment" ->
            [field |-> "verticalAlignment", flags |-> DirtyFlag.Position]
       [] op = "set enableWrapping" ->
            [field |-> "enableWrapping", flags |-> DirtyFlag.Position]
       [] op = "set overflowMode" -> [field |-> "overflowMode", flags |-> DirtyFlag.Position]
       [] op = "set maskInteraction" ->
            [field |-> "maskInteraction", flags |-> DirtyFlag.MaskInteraction]]

\* C27: a setter that changes its property raises the flags its property
\* feeds and no other: font, fontSize and fontStyle raise SubFont,
\* LocalPositionBounds, WorldPosition and WorldBounds; text, width, height,
\* lineSpacing, the alignments, enableWrapping and overflowMode raise the
\* last three; maskInteraction raises MaskInteraction alone; a transform
\* change raises WorldPosition and WorldBounds; a setter given the current
\* value changes nothing, and no setter clears a flag.
C27_SettersRaiseByDependency ==
  [][/\ lastOp' \in DOMAIN SetterOf
          => IF textRenderer'[SetterOf[lastOp'].field] # textRenderer[SetterOf[lastOp'].field]
             THEN textRenderer'.dirtyFlag
                    = textRenderer.dirtyFlag \cup SetterOf[lastOp'].flags
             ELSE textRenderer' = textRenderer
     /\ lastOp' = "_onTransformChanged"
          => textRenderer'.dirtyFlag
               = textRenderer.dirtyFlag \cup {"WorldPosition", "WorldBounds"}
     /\ lastOp' \in DOMAIN SetterOf \cup {"_onTransformChanged"}
          => textRenderer.dirtyFlag \subseteq textRenderer'.dirtyFlag]_vars

\* After the four flags were cleared the mask interaction was changed: the
\* MaskInteraction flag alone is set.
C27_Witness ==
  /\ lastOp = "set maskInteraction"
  /\ textRenderer.maskInteraction = "VisibleInsideMask"
  /\ textRenderer.dirtyFlag = {"MaskInteraction"}

\* After a render cleared the flags the text was changed: the three
\* position flags are set and SubFont is not.
C27_WitnessText ==
  /\ lastOp = "set text"
  /\ textRenderer.subFont # <<>>
  /\ textRenderer.dirtyFlag = DirtyFlag.Position


\* The stages of names whose flag is in flags, in the order of names.
StagesDue(flags, names) ==
  SelectSeq(names, LAMBDA n : n[1] \in flags)

\* The names of the stages due under flags.
StageNames(flags, names) ==
  [k \in 1..Len(StagesDue(flags, names)) |-> StagesDue(flags, names)[k][2]]

\* The flag and the stage of each check of _render, in the order of the code.
RenderStages ==
  <<<<"MaskInteraction", "_updateStencilState">>, <<"SubFont", "_resetSubFont">>,
    <<"LocalPositionBounds", "_updateLocalData">>, <<"WorldPosition", "_updatePosition">>>>

\* The flag and the stage of each check of the bounds getter.
BoundsStages ==
  <<<<"SubFont", "_resetSubFont">>, <<"LocalPositionBounds", "_updateLocalData">>,
    <<"WorldPosition", "_updatePosition">>, <<"WorldBounds", "_updateBounds">>>>

\* The local layout of a renderer: its records' quads and its local bounds.
LocalDataOf(r) ==
  <<[k \in 1..Len(r.charRenderDatas) |->
       <<r.charRenderDatas[k].id, r.charRenderDatas[k].localPositions>>],
    r.localBounds>>

\* The world quads of a renderer's records.
WorldPositionsOf(r) ==
  [k \in 1..Len(r.charRenderDatas) |-> r.charRenderDatas[k].positions]

\* Every record's world quad is its local quad under the renderer's pose.
WorldPositionsFresh(r) ==
  \A k \in 1..Len(r.charRenderDatas) :
    r.charRenderDatas[k].positions
      = [pose |-> r.pose, local |-> r.charRenderDatas[k].localPositions]

\* C28: a lazy stage of the text renderer runs exactly when its flag is set
\* where it is checked, in the order SubFont, LocalPositionBounds,
\* WorldPosition, WorldBounds: a _render that is not short-circuited leaves
\* MaskInteraction, SubFont, LocalPositionBounds and WorldPosition clear and
\* the WorldBounds flag and the world bounds as they were; a read of bounds
\* leaves SubFont, LocalPositionBounds, WorldPosition and WorldBounds clear
\* and the MaskInteraction flag and the stencil state as they were.
C28_StagesRunOnOwnFlag ==
  [][/\ (lastOp' = "TextRenderer._render" /\ ~RenderShortCircuits(textRenderer))
          => /\ textRenderer'.dirtyFlag = textRenderer.dirtyFlag \cap {"WorldBounds"}
             /\ textRenderer'.bounds = textRenderer.bounds
             /\ textLog'.stages = StageNames(textRenderer.dirtyFlag, RenderStages)
             /\ textRenderer'.stencilFor =
                  IF "MaskInteraction" \in textRenderer.dirtyFlag
                  THEN textRenderer.maskInteraction ELSE textRenderer.stencilFor
     /\ lastOp' = "get bounds"
          => /\ textRenderer'.dirtyFlag = textRenderer.dirtyFlag \cap {"MaskInteraction"}
             /\ textRenderer'.stencilFor = textRenderer.stencilFor
             /\ textLog'.stages = StageNames(textRenderer.dirtyFlag, BoundsStages)
             /\ textRenderer'.bounds =
                  IF "WorldBounds" \in textRenderer.dirtyFlag
                  THEN [pose |-> textRenderer.pose, local |-> textRenderer'.localBounds]
                  ELSE textRenderer.bounds
     /\ ((lastOp' = "TextRenderer._render" /\ ~RenderShortCircuits(textRenderer))
           \/ lastOp' = "get bounds")
          => /\ textRenderer'.subFont =
                  IF "SubFont" \in textRenderer.dirtyFlag
                  THEN <<textRenderer.font, textRenderer.fontSize, textRenderer.fontStyle>>
                  ELSE textRenderer.subFont
             /\ "LocalPositionBounds" \notin textRenderer.dirtyFlag
                  => /\ LocalDataOf(textRenderer') = LocalDataOf(textRenderer)
                     /\ charPool' = charPool
             /\ "WorldPosition" \in textRenderer.dirtyFlag
                  => WorldPositionsFresh(textRenderer')
             /\ textRenderer.dirtyFlag \cap {"LocalPositionBounds", "WorldPosition"} = {}
                  => WorldPositionsOf(textRenderer') = WorldPositionsOf(textRenderer)]_vars

\* A render ran its four stages and left the WorldBounds flag set.
C28_Witness ==
  /\ lastOp = "TextRenderer._render"
  /\ Len(textLog.stages) = 4
  /\ textRenderer.dirtyFlag = {"WorldBounds"}
  /\ textRenderer.charRenderDatas # <<>>

\* A read of bounds after a render and a transform change ran the position
\* and bounds stages alone and left the MaskInteraction flag set.
C28_WitnessBounds ==
  /\ lastOp = "get bounds"
  /\ textLog.stages = <<"_updatePosition", "_updateBounds">>
  /\ textRenderer.dirtyFlag = {"MaskInteraction"}
  /\ textRenderer.bounds.pose = 1

\* ------------------------------------------------- record pool: properties
\* The records of a list, by id.
IdsOf(datas) == {datas[k].id : k \in 1..Len(datas)}

\* No record occurs twice in the list.
NoRecordTwice(datas) == Cardinality(IdsOf(datas)) = Len(datas)

\* The visible (h > 0) glyphs of a text.
VisibleGlyphs(text) == Cardinality({k \in 1..Len(text) : CharInfo(text[k]).h > 0})

\* A layout pass from list held to list kept for text: one record per
\* visible glyph, the held records first, the excess returned to the pool
\* free, each once, the missing ones borrowed from it or constructed.
LayoutPass(held, kept, text, free, log) ==
  /\ Len(kept) = VisibleGlyphs(text)
  /\ log.charGets = Max2(Len(kept) - Len(held), 0)
  /\ log.charPuts = Max2(Len(held) - Len(kept), 0)
  /\ IdsOf(kept) = IdsOf(SubSeq(held, 1, Min2(Len(held), Len(kept))))
                     \cup (IdsOf(kept) \ IdsOf(held))
  /\ IdsOf(kept) \ IdsOf(held)
       \subseteq IdsOf(free) \cup (charPool.created + 1)..charPool'.created
  /\ log.charGets = Cardinality(IdsOf(kept) \ IdsOf(held))
  /\ IdsOf(charPool'.free) = (IdsOf(free) \ IdsOf(kept)) \cup (IdsOf(held) \ IdsOf(kept))
  /\ Len(charPool'.free) = Len(free) - (log.charGets - (charPool'.created - charPool.created))
                             + log.charPuts
  /\ charPool'.created > charPool.created => IdsOf(free) \subseteq IdsOf(kept)

\* C29: after a layout pass the renderer's list holds one record per visible
\* glyph; the records it held are used first and only the missing ones are
\* borrowed, the excess ones are returned once each; a destroy returns every
\* record of the list once and empties it; and at all times no record is in
\* the pool and in a list, or in both renderers' lists, or twice in the pool
\* or in a list.
C29_RecordsNeverShared ==
  [][/\ NoRecordTwice(textRenderer'.charRenderDatas)
     /\ NoRecordTwice(otherRenderer'.charRenderDatas)
     /\ NoRecordTwice(charPool'.free)
     /\ IdsOf(textRenderer'.charRenderDatas) \cap IdsOf(otherRenderer'.charRenderDatas) = {}
     /\ IdsOf(textRenderer'.charRenderDatas) \cap IdsOf(charPool'.free) = {}
     /\ IdsOf(otherRenderer'.charRenderDatas) \cap IdsOf(charPool'.free) = {}
     /\ ((\/ lastOp' = "TextRenderer._render" /\ ~RenderShortCircuits(textRenderer)
          \/ lastOp' = "get bounds")
         /\ "LocalPositionBounds" \in textRenderer.dirtyFlag)
          => LayoutPass(textRenderer.charRenderDatas, textRenderer'.charRenderDatas,
                        textRenderer.text, charPool.free, textLog')
     /\ (lastOp' = "other _render" /\ ~RenderShortCircuits(otherRenderer)
         /\ "LocalPositionBounds" \in otherRenderer.dirtyFlag)
          => LayoutPass(otherRenderer.charRenderDatas, otherRenderer'.charRenderDatas,
                        otherRenderer.text, charPool.free, textLog')
     /\ lastOp' = "TextRenderer._onDestroy"
          => /\ textRenderer'.charRenderDatas = <<>>
             /\ charPool'.free = charPool.free \o textRenderer.charRenderDatas
     /\ lastOp' = "other _onDestroy"
          => /\ otherRenderer'.charRenderDatas = <<>>
             /\ charPool'.free = charPool.free \o otherRenderer.charRenderDatas]_vars

\* The first renderer laid out two glyphs and was destroyed, then the second
\* renderer laid out one glyph with a record the first had returned.
C29_Witness ==
  /\ lastOp = "other _render"
  /\ textRenderer.destroyed
  /\ charPool.created = 2
  /\ Len(charPool.free) = 1
  /\ Len(otherRenderer.charRenderDatas) = 1

\* The second renderer's text shrank from two visible glyphs to one: its
\* layout pass kept one record and returned the other.
C29_WitnessShrink ==
  /\ lastOp = "other _render"
  /\ textLog.charPuts = 1
  /\ Len(otherRenderer.charRenderDatas) = 1
  /\ Len(textRenderer.charRenderDatas) = 2


\* The elements of a sequence.
Range(seq) == {seq[k] : k \in 1..Len(seq)}

\* Page i of sub font sf, a fresh page where sf has none.
PageOrNew(sf, i) == IF i <= Len(sf.fontAtlases) THEN sf.fontAtlases[i] ELSE NewFontAtlas

\* C30: an _uploadCharTexture call tries the upload on the cursor page and,
\* when that page rejects the bitmap, once more on a page it creates, which
\* becomes the cursor page: two attempts at most, one page created at most
\* by a call that is not the first; no page but those tried is written, the
\* pages before the cursor stay as they are whatever room they have, and the
\* cursor never moves back.
C30_UploadOnCursorOrNewPage ==
  [][/\ subFont'.lastIndex >= subFont.lastIndex
     /\ (UploadStep /\ fontLog'.threw)
          => subFont' = subFont /\ fontLog'.attempts = <<>>
     /\ (UploadStep /\ ~fontLog'.threw)
          => /\ fontLog'.attempts
                  \in {<<FirstPage(subFont).lastIndex>>,
                       <<FirstPage(subFont).lastIndex, FirstPage(subFont).lastIndex + 1>>}
             /\ Len(fontLog'.attempts) = 2 <=> UploadRejected(subFont, fontLog'.size)
             /\ Len(subFont'.fontAtlases)
                  = Len(FirstPage(subFont).fontAtlases) + Len(fontLog'.attempts) - 1
             /\ subFont.lastIndex # -1
                  => Len(subFont'.fontAtlases) <= Len(subFont.fontAtlases) + 1
             /\ subFont'.lastIndex = fontLog'.attempts[Len(fontLog'.attempts)]
             /\ subFont'.lastIndex = Len(subFont'.fontAtlases) - 1
             /\ \A i \in 1..Len(subFont'.fontAtlases) :
                  /\ subFont'.fontAtlases[i] # PageOrNew(subFont, i)
                       => (i - 1) \in Range(fontLog'.attempts)
                  /\ (i - 1) < FirstPage(subFont).lastIndex
                       => subFont'.fontAtlases[i] = subFont.fontAtlases[i]]_vars

\* Page 0 has room for the bitmap, yet the upload was tried on the full
\* cursor page 1 and went to the new page 2.
C30_Witness ==
  /\ lastOp = "_uploadCharTexture"
  /\ fontLog.attempts = <<1, 2>>
  /\ Len(subFont.fontAtlases) = 3
  /\ subFont.lastIndex = 2
  /\ AtlasAccepts(subFont.fontAtlases[1], fontLog.size)
  /\ subFont.fontAtlases[3].used = fontLog.size

\* ------------------------------------------- glyph registration: properties
\* C31: when _addCharInfo follows an _uploadCharTexture, the glyph is
\* registered on the page that accepted its bitmap: the upload was accepted
\* by some page, the retry on a new page included, charInfo.index is that
\* page's index and _getTextureByIndex(charInfo.index) is its texture.
C31_GlyphOnAcceptingPage ==
  [][(lastOp = "_uploadCharTexture" /\ ~fontLog.threw /\ AddStep)
       => /\ fontLog.uploadedTo # -1
          /\ getCharInfo(subFont'.fontAtlases[subFont'.lastIndex + 1], fontLog'.char).index
               = fontLog.uploadedTo
          /\ _getTextureByIndex(subFont', fontLog.uploadedTo) = fontLog.uploadedTo]_vars

\* ------------------------------------------------ font references: properties
\* The live renderers among the two whose font is font.
LiveRenderersOn(font) ==
  (IF ~textRenderer.destroyed /\ textRenderer.font = font THEN 1 ELSE 0)
  + (IF ~otherRenderer.destroyed /\ otherRenderer.font = font THEN 1 ELSE 0)

QuadInside(quad, box) ==
  /\ box.min[1] <= quad[1] /\ quad[3] <= box.max[1]
  /\ box.min[2] <= quad[4] /\ quad[2] <= box.max[2]

\* C33: after _updateLocalData the local bounds are well formed and hold
\* every glyph quad: min.x <= max.x, min.y <= max.y and every record of
\* _charRenderDatas lies inside [min, max], whatever the text, blanks at the
\* ends of a line and texts without visible glyph included.
C33_LocalBoundsHoldEveryQuad ==
  [][("_updateLocalData" \in Range(textLog'.stages))
       => /\ textRenderer'.localBounds.min[1] <= textRenderer'.localBounds.max[1]
          /\ textRenderer'.localBounds.min[2] <= textRenderer'.localBounds.max[2]
          /\ \A k \in 1..Len(textRenderer'.charRenderDatas) :
               QuadInside(textRenderer'.charRenderDatas[k].localPositions,
                          textRenderer'.localBounds)]_vars

\* ------------------------------------------------- partition step: properties
\* The array step k of the last sort started from.
ArrayBefore(k) == IF k = 1 THEN before ELSE sortLog[k - 1].a

\* The pivot of partition step k: the median of the first, the last and the
\* middle element of its range.
PivotOf(k) ==
  MedianOfThree(renderers, lastSort, ArrayBefore(k), sortLog[k].from, sortLog[k].to,
                (sortLog[k].from + sortLog[k].to) \div 2).v1

\* How the element at index i after step k compares to the step's pivot.
OrderToPivot(k, i) == compareFunc(renderers, lastSort, At(sortLog[k].a, i), PivotOf(k))

\* C34: every partition step ends with a three-way split around its
\* median-of-three pivot: [from, low_end) is not above the pivot,
\* [low_end, high_start) compares equal to it and is not empty, and
\* [high_start, to) is not below it; the pivot lies in the middle part, so
\* neither range the sort continues on holds it and both are shorter than
\* [from, to).
C34_ThreeWaySplit ==
  \A k \in 1..Len(sortLog) :
    sortLog[k].kind = "partition" =>
      LET s == sortLog[k]
      IN  /\ s.from < s.low_end /\ s.low_end < s.high_start /\ s.high_start < s.to
          /\ \A i \in s.from..(s.low_end - 1) : OrderToPivot(k, i) <= 0
          /\ \A i \in s.low_end..(s.high_start - 1) : OrderToPivot(k, i) = 0
          /\ \A i \in s.high_start..(s.to - 1) : OrderToPivot(k, i) >= 0
          /\ \E i \in s.low_end..(s.high_start - 1) : At(s.a, i) = PivotOf(k)
          /\ \A i \in (s.from..(s.low_end - 1)) \cup (s.high_start..(s.to - 1)) :
               At(s.a, i) # PivotOf(k)
          /\ s.low_end - s.from < s.to - s.from
          /\ s.to - s.high_start < s.to - s.from

\* A partition step left elements in all three parts: more than the first
\* element below the pivot, more than the last above it, and ties with the
\* pivot in the middle.
C34_Witness ==
  /\ QuickSortPath
  /\ sortLog[1].low_end > sortLog[1].from + 1
  /\ sortLog[1].high_start < sortLog[1].to - 1
  /\ sortLog[1].high_start - sortLog[1].low_end >= 2
  /\ items # before

\* ------------------------------------------------ stamps at draw: properties
\* C35: at every drawPrimitive of a render call the program drawn with is
\* the bound one and its five stamps describe the element drawn: the call's
\* render counter and the current scene, camera, renderer and effective
\* material, whatever elements, programs, renderers and materials came
\* before it in the queue or in earlier calls.
C35_StampsDescribeDrawnElement ==
  [][lastOp' \in RenderOps
       => \A i \in DrawnMeshes :
            \E after \in {StateAfter(i)} :
              \E p \in {ResolveProgram(items'[i], call')} :
                /\ after.ops[Len(after.ops)]
                     = Op("drawPrimitive", items'[i].id, p, "none", Null)
                /\ after.currentBind = p
                /\ after.programs[p]
                     = StampsOf(CurrentData(items'[i], call'), call'.renderCount)]_vars

\* A call drew two elements with one program and the stamps had to follow:
\* the second element's renderer differs from the first's, in a call whose
\* camera differs from the one the program was last uploaded for.
C35_Witness ==
  /\ lastOp = "queue render"
  /\ Len(items) = 2
  /\ Len(ElementOps(ops, items[1].id)) >= 6
  /\ Len(ElementOps(ops, items[2].id)) >= 6
  /\ ResolveProgram(items[1], call) = ResolveProgram(items[2], call)
  /\ items[1].component # items[2].component
  /\ \E k \in DOMAIN ops :
       /\ ops[k].op = "uploadAll" /\ ops[k].block = "camera" /\ ops[k].item = items[1].id
       /\ ops[k - 1].op # "uploadAll"
       /\ ops[k - 1].op # "groupingOtherUniformBlock"

\* --------------------------------------------- projection caches: properties
\* C36: the caches derived from the projection are never used stale: the
\* inverse view-projection matrix viewportToWorldPoint works with is the one
\* of the projection matrix the getter derived last, a canvas resize being
\* the only trigger included, and the frustum Camera.render culls with is
\* the one of the view-projection matrix of that render.
C36_ProjectionCachesFresh ==
  [][/\ lastOp' = "viewportToWorldPoint"
          => camera'.invViewProjMat
               = multiply(worldMatrix(transform'.pose), invert(camera'.projectionMatrix))
     /\ (lastOp' = "render" /\ camera'.enableFrustumCulling)
          => camera'.frustum = calculateFromMatrix(camera'.viewProjectionMatrix)]_vars

\* ------------------------------------------------- sub font cursor: properties
\* C37: the cursor of a sub font designates its last page: _lastIndex is
\* _fontAtlases.length - 1 after construction and after every operation,
\* destroy() included.
C37_CursorOnLastPage == subFont.lastIndex = Len(subFont.fontAtlases) - 1

\* --------------------------------------------------- font registry: properties
\* C38: destroying a font removes only that font from the registry: over
\* createFromOS, direct constructions and destroys, a destroy leaves the
\* entry of every name whose registered font is another font, so that
\* createFromOS goes on returning a registered font that was not destroyed.
C38_DestroyRemovesOnlyItself ==
  [][/\ DestroyFontStep
          => \A name \in FontNames :
               (fontMap[name] # NoFont /\ fontMap[name] # fontLog'.font)
                 => fontMap'[name] = fontMap[name]
     /\ (CreateStep /\ fontLog'.name # "" /\ fontMap[fontLog'.name] # NoFont)
          => fontLog'.result = fontMap[fontLog'.name]]_vars

\* ------------------------------------------------- sort termination: properties
\* The log index after the steps of _quickSort(a, from, to) that begin at
\* log index k, or -1 when the steps are not those of a terminating run: a
\* range of at most ten elements is one insertion step; a longer one is a
\* partition step whose two sides are both shorter than the range, followed
\* by the steps of the recursive call on the side that is not the longer
\* one and then by those of the loop's next iteration on the other side.
RECURSIVE StepsOf(_, _, _)
StepsOf(k, from, to) ==
  IF k > Len(sortLog) \/ k < 1 THEN -1
  ELSE IF sortLog[k].from # from \/ sortLog[k].to # to THEN -1
  ELSE IF to - from <= InsertionSortThreshold
       THEN IF sortLog[k].kind = "insertion" THEN k + 1 ELSE -1
  ELSE LET s == sortLog[k]
           low == s.low_end - from
           high == to - s.high_start
       IN  IF s.kind # "partition" \/ low >= to - from \/ high >= to - from
              \/ low < 0 \/ high < 0
           THEN -1
           ELSE IF high < low
           THEN StepsOf(StepsOf(k + 1, s.high_start, to), from, s.low_end)
           ELSE StepsOf(StepsOf(k + 1, from, s.low_end), s.high_start, to)

\* An element no comparator can take: its component is no renderer.
Guard == Element(-1, 0, TRUE, "m1")

\* The sort of before over the range [1, Len(before) + 1) of an array that
\* holds a guard element on either side of the range.
GuardedSort ==
  _quickSort(renderers, lastSort, [a |-> <<Guard>> \o before \o <<Guard>>, log |-> <<>>],
             1, Len(before) + 1).a

\* C39: RenderQueue.sort terminates, whatever the sequence and the
\* comparator: the steps it took are those of a run in which every loop
\* iteration and every recursive call has a shorter range than the one it
\* came from and the recursive call takes the side that is not the longer
\* one, every step leaves the elements outside its range where they were,
\* and no index outside [from, to) is read or written: with a guard element
\* on either side of the range the sort gives the same result.
C39_SortTerminatesInRange ==
  lastSort # "none" =>
    /\ StepsOf(1, 0, Len(before)) = Len(sortLog) + 1
    /\ \A k \in 1..Len(sortLog) :
         \A i \in 0..(Len(before) - 1) :
           (i < sortLog[k].from \/ i >= sortLog[k].to)
             => At(sortLog[k].a, i) = At(ArrayBefore(k), i)
    /\ GuardedSort = <<Guard>> \o items \o <<Guard>>

\* A quicksort-path sort of twelve elements that all compare equal: the
\* partition step, the recursive call and the loop's next iteration.
C39_Witness ==
  /\ QuickSortPath
  /\ Len(sortLog) = 3
  /\ Len(before) = 12
  /\ \A i, j \in DOMAIN before : compareFunc(renderers, lastSort, before[i], before[j]) = 0

\* A quicksort-path sort whose recursive call took the upper side.
C39_WitnessUpper ==
  /\ QuickSortPath
  /\ Len(sortLog) = 3
  /\ sortLog[2].from = sortLog[1].high_start
  /\ sortLog[3].to = sortLog[1].low_end

\* ------------------------------------------------------ glTF loading: properties
\* The places of the log that hold event ev.
EventsAt(ev) == {k \in 1..Len(loadLog) : loadLog[k].ev = ev}

\* C40: for a url that is not GLB, the promise of BufferParser.parse is
\* fulfilled only with glTFResource.gltf and glTFResource.buffers both set;
\* gltf is assigned before any buffer request is issued; buffers is assigned
\* at most once and only after every buffer request was answered;
\* buffers[i] is the response to the request for gltf.buffers[i], whatever
\* order the requests complete in; and when a request fails the promise is
\* rejected and buffers is never assigned.
C40_BuffersInDocumentOrder ==
  (parsePromise # "none" /\ ~_isGLB(glTFResource.url)) =>
    /\ parsePromise = "fulfilled"
         => glTFResource.gltf # <<>> /\ glTFResource.buffers # <<>>
    /\ \A k \in EventsAt("request") :
         loadLog[k].index > 1 => \E j \in EventsAt("set gltf") : j < k
    /\ Cardinality(EventsAt("set buffers")) <= 1
    /\ \A k \in EventsAt("set buffers") :
         \A i \in 2..Len(requests) :
           \E j \in EventsAt("fulfilled") : j < k /\ loadLog[j].index = i
    /\ (glTFResource.buffers # <<>>) = (EventsAt("set buffers") # {})
    /\ glTFResource.buffers # <<>>
         => /\ Len(glTFResource.buffers[1]) = Len(glTFResource.gltf[1].buffers)
            /\ \A i \in 1..Len(glTFResource.buffers[1]) :
                 <<glTFResource.buffers[1][i]>>
                   = ArrayBufferOf(parseRelativeUrl(glTFResource.url,
                                                    glTFResource.gltf[1].buffers[i].uri))
    /\ (\E i \in 1..Len(requests) : requests[i].state = "rejected")
         => parsePromise = "rejected" /\ glTFResource.buffers = <<>>

\* A parse of a document with three buffers of two uris was fulfilled after
\* the last buffer's request was answered first and the first one's last.
C40_Witness ==
  /\ parsePromise = "fulfilled"
  /\ ~_isGLB(glTFResource.url)
  /\ Len(requests) = 4
  /\ requests[4].order < requests[3].order
  /\ requests[3].order < requests[2].order
  /\ glTFResource.gltf[1].buffers[1].uri # glTFResource.gltf[1].buffers[3].uri

\* A buffer request failed while another was pending and was answered later.
C40_WitnessFailure ==
  /\ parsePromise = "rejected"
  /\ Len(requests) = 3
  /\ requests[2].state = "rejected"
  /\ requests[3].state = "fulfilled"
  /\ requests[2].order < requests[3].order

====
